---- MODULE Spec2Model ----
(***************************************************************************)
(* Borealis view tree: Box / ScrollingBox / BoxLayout containers, focus    *)
(* traversal, culling, scrolling arithmetic, XML attribute dispatch and    *)
(* layout invalidation, modelled from src/library.                         *)
(*                                                                         *)
(* One module, several specifications over the same variables:             *)
(*   Spec        the view tree built with addView and the focus queries    *)
(*   SpecDraw    Box::draw and its culling test                            *)
(*   SpecScroll  ScrollingBox: addView and the content height              *)
(*   SpecScrolling  ScrollingBox::updateScrolling and the scroll fraction  *)
(*   SpecTree    addView of Box, ScrollingBox and BoxLayout on one forest  *)
(*   SpecAttr    View::applyXMLAttributes                                  *)
(*   SpecLayout  the layout setters and View::invalidate                   *)
(*   SpecAnim    the interpolations of the view fields, focus changes      *)
(*   SpecBoxLayout  BoxLayout: remembered focus, removeView, destructor    *)
(*   SpecFrame   View::frame and the steps it issues                       *)
(*   SpecPlacement  BoxLayout::layout, the hand-computed boundaries        *)
(* A specification leaves the variables of the other components at their   *)
(* constructed values.                                                     *)
(*                                                                         *)
(* Conventions: indices are the C++ ones (0-based); NoView is nullptr for  *)
(* a View*, Null is nullptr for the parent user data; float fields hold    *)
(* integers (pixels), and the scroll fraction is an exact quotient.        *)
(***************************************************************************)
EXTENDS Integers, Sequences, FiniteSets, TLC

\* ------------------------------------------------------------------ bounds

NLeaves == 2

\* ------------------------------------------------------------ the universe

NoView == 0
Null == 0 - 1

Boxes == {1, 2}
Leaves == 11..(10 + NLeaves)
BoxLayouts == {31}
ScrollingBoxes == {41}
\* ScrollingBox::flatBox, the ScrollingBoxInternalBox a ScrollingBox constructs
flatBox(s) == s + 1
FlatBoxes == {flatBox(s) : s \in ScrollingBoxes}
\* every class that derives from Box
BoxLikes == Boxes \cup ScrollingBoxes \cup FlatBoxes
Containers == BoxLikes \cup BoxLayouts
Views == BoxLikes \cup Leaves \cup BoxLayouts

\* View::AUTO (NAN), the undefined height of the layout engine
AUTO == 0 - 1

Axes == {"ROW", "COLUMN"}
Orientations == {"HORIZONTAL", "VERTICAL"}
FocusDirections == {"UP", "DOWN", "LEFT", "RIGHT"}

\* size_t arithmetic: the model keeps 16 of its bits, child counts stay far below
SizeModulus == 2 ^ 16

VARIABLES
    children,        \* Box::children / BoxLayout::children, per container
    parent,          \* View::parent
    parentUserdata,  \* View::parentUserdata: the index (Box) or the position token (BoxLayout)
    axis,            \* Box::axis
    orientation,     \* BoxLayout::orientation
    focusable,       \* whether a leaf's getDefaultFocus override returns the leaf
    blDefaultFocusedIndex,  \* BoxLayout::defaultFocusedIndex
    ygChildren,      \* the children of a box's layout node (YGNodeGetChild), in order
    ygHeight,        \* YGNodeStyleGetHeight(ygNode).value: AUTO or the declared height
    ygLayout,        \* the layout engine's computed node: left, top, width, height
    culled,          \* View::culled
    collapseState,   \* View::collapseState, in units of 1/CollapseScale
    ygMarginTop,     \* the top margin declared on the view's layout node
    ygMarginBottom,  \* the bottom margin declared on the view's layout node
    ygPositionTop,   \* the top position declared on the view's layout node
    ygWidth,         \* YGNodeStyleGetWidth(ygNode).value: AUTO or the declared width
    ygMarginRight,   \* the right margin declared on the view's layout node
    ygMarginLeft,    \* the left margin declared on the view's layout node
    ygPadding,       \* the padding declared on a box's layout node, per edge
    scrollY,         \* ScrollingBox::scrollY, a fraction [num, den]
    middleY,         \* ScrollingBox::middleY
    bottomY,         \* ScrollingBox::bottomY
    updateScrollingOnNextFrame,  \* ScrollingBox::updateScrollingOnNextFrame
    Application_currentFocus,    \* Application::getCurrentFocus()
    scrollAnim,      \* the interpolation in flight on scrollY: its target, or NoAnim
    autoAttributes,        \* the names of View::autoAttributes
    floatAttributes,       \* the names of View::floatAttributes
    percentageAttributes,  \* the names of View::percentageAttributes
    stringAttributes,      \* the names of View::stringAttributes
    colorAttributes,       \* the names of View::colorAttributes
    knownAttributes,       \* View::knownAttributes
    animations,      \* the interpolations in flight (menu_animation_push), oldest first
    alpha,           \* View::alpha, a fraction
    highlightAlpha,  \* View::highlightAlpha, a fraction
    hidden,          \* View::hidden
    fadeIn,          \* View::fadeIn
    focused,         \* View::focused
    destroyed,       \* the views whose destructor has run
    rememberFocus,   \* BoxLayout::rememberFocus
    originalDefaultFocus,  \* BoxLayout::originalDefaultFocus
    childFocused,    \* BoxLayout::childFocused
    call             \* the last operation and what it returned

treeVars == <<children, parent, parentUserdata, axis, orientation, focusable,
              blDefaultFocusedIndex, ygChildren>>
geomVars == <<ygHeight, ygLayout, culled, collapseState>>
styleVars == <<ygMarginTop, ygMarginBottom, ygPositionTop, ygWidth, ygMarginRight,
              ygMarginLeft, ygPadding>>
scrollVars == <<scrollY, middleY, bottomY, updateScrollingOnNextFrame,
               Application_currentFocus, scrollAnim>>
attrVars == <<autoAttributes, floatAttributes, percentageAttributes, stringAttributes,
             colorAttributes, knownAttributes>>
lifeVars == <<animations, alpha, highlightAlpha, hidden, fadeIn, focused, destroyed,
              rememberFocus, originalDefaultFocus, childFocused>>
vars == <<treeVars, geomVars, styleVars, scrollVars, attrVars, lifeVars, call>>

NoCall == [op |-> "none"]

\* ------------------------------------------------------------ tree helpers

\* children[i] of the C++ code
At(seq, i) == seq[i + 1]

Range(seq) == {seq[k] : k \in 1..Len(seq)}

\* the views a container holds, in order (a BoxLayout holds BoxLayoutChild records)
ChildViews(c) ==
    IF c \in BoxLayouts THEN [k \in 1..Len(children[c]) |-> children[c][k].view]
    ELSE IF c \in BoxLikes THEN children[c]
    ELSE <<>>

\* whether w is v or lies below v in the child sequences
RECURSIVE InSubtree(_, _)
InSubtree(v, w) ==
    \/ v = w
    \/ \E k \in 1..Len(ChildViews(v)) : InSubtree(ChildViews(v)[k], w)

\* YGNodeGetOwner(view->getYGNode()) # nullptr: some Box inserted the node
YGOwned(v) == \E b \in BoxLikes : v \in Range(children[b])

\* --------------------------------------------------------- getDefaultFocus

RECURSIVE View_getDefaultFocus(_)

defaultFocusedIndex_one == 0 + 1
defaultFocusedIndex == 0

\* the for loop of Box::getDefaultFocus from index i: [result, consulted]
RECURSIVE Box_scanDefault(_, _, _)
Box_scanDefault(b, i, consulted) ==
    IF i < Len(children[b])
    THEN LET newFocus == View_getDefaultFocus(At(children[b], i))
         IN IF newFocus # NoView
            THEN [result |-> newFocus, consulted |-> Append(consulted, i)]
            ELSE Box_scanDefault(b, i + 1, Append(consulted, i))
    ELSE [result |-> NoView, consulted |-> consulted]

Box_getDefaultFocus(b) ==
    LET first == IF defaultFocusedIndex < Len(children[b])
                 THEN View_getDefaultFocus(At(children[b], defaultFocusedIndex))
                 ELSE NoView
        tried == IF defaultFocusedIndex < Len(children[b])
                 THEN <<defaultFocusedIndex>> ELSE <<>>
    IN IF first # NoView
       THEN [result |-> first, consulted |-> tried]
       ELSE Box_scanDefault(b, 0, tried)

\* virtual dispatch: View's default returns nullptr, a focusable subclass returns this
View_getDefaultFocus(v) ==
    IF v \in Leaves THEN (IF focusable[v] THEN v ELSE NoView)
    ELSE Box_getDefaultFocus(v).result

\* ------------------------------------------------------- Box::getNextFocus

AxisMismatch(ax, direction) ==
    \/ (ax = "ROW" /\ direction # "LEFT" /\ direction # "RIGHT")
    \/ (ax = "COLUMN" /\ direction # "UP" /\ direction # "DOWN")

Box_offset_forward(ax, direction) == 1

\* size_t offset = 1, or -1 stored in a size_t
Box_offset(ax, direction) ==
    IF (ax = "ROW" /\ direction = "LEFT") \/ (ax = "COLUMN" /\ direction = "UP")
    THEN SizeModulus - 1
    ELSE 1

\* the while loop of Box::getNextFocus
RECURSIVE Box_scanNext(_, _, _, _)
Box_scanNext(b, currentFocusIndex, offset, consulted) ==
    IF currentFocusIndex >= 0 /\ currentFocusIndex < Len(children[b])
    THEN LET currentFocus == View_getDefaultFocus(At(children[b], currentFocusIndex))
         IN IF currentFocus # NoView
            THEN [result |-> currentFocus,
                  consulted |-> Append(consulted, currentFocusIndex)]
            ELSE Box_scanNext(b, (currentFocusIndex + offset) % SizeModulus, offset,
                              Append(consulted, currentFocusIndex))
    ELSE [result |-> NoView, consulted |-> consulted]

Box_getNextFocus_nogate(b, direction, currentView) ==
    Box_scanNext(b,
                 (parentUserdata[currentView] + Box_offset(axis[b], direction)) % SizeModulus,
                 Box_offset(axis[b], direction), <<>>)

Box_getNextFocus(b, direction, currentView) ==
    IF AxisMismatch(axis[b], direction)
    THEN [result |-> NoView, consulted |-> <<>>]
    ELSE Box_scanNext(b,
                      (parentUserdata[currentView] + Box_offset(axis[b], direction))
                          % SizeModulus,
                      Box_offset(axis[b], direction), <<>>)

\* ------------------------------------------------------- BoxLayout focus

\* the position of the child record a position token designates; Len = end()
IndexOfNode(bl, token) ==
    IF \E k \in 1..Len(children[bl]) : children[bl][k].node = token
    THEN (CHOOSE k \in 1..Len(children[bl]) : children[bl][k].node = token) - 1
    ELSE Len(children[bl])

\* what std::next(begin(), -1) may do: the sentinel of a circular list, or abort
UBOutcomes == {"end", "crash"}

BoxLayout_scanDefault(bl) ==
    LET accepting == {k \in 1..Len(children[bl]) :
                         View_getDefaultFocus(children[bl][k].view) # NoView}
    IN IF accepting = {} THEN NoView
       ELSE View_getDefaultFocus(
                children[bl][CHOOSE k \in accepting : \A j \in accepting : k <= j].view)

BoxLayout_getDefaultFocus(bl) ==
    LET newFocus == IF blDefaultFocusedIndex[bl] < Len(children[bl])
                    THEN View_getDefaultFocus(
                             At(children[bl], blDefaultFocusedIndex[bl]).view)
                    ELSE NoView
    IN IF newFocus # NoView THEN newFocus ELSE BoxLayout_scanDefault(bl)

\* the while loop of BoxLayout::getNextFocus; it is an index, Len(children) is end()
RECURSIVE BoxLayout_scanNext(_, _, _, _, _)
BoxLayout_scanNext(bl, it, forward, consulted, ub) ==
    IF it = Len(children[bl])
    THEN [result |-> NoView, consulted |-> consulted, crashed |-> FALSE]
    ELSE LET currentFocus == View_getDefaultFocus(At(children[bl], it).view)
             seen == Append(consulted, it)
         IN IF (~forward) /\ it = 0 /\ ub = "crash"
            THEN [result |-> NoView, consulted |-> seen, crashed |-> TRUE]
            ELSE IF currentFocus # NoView
            THEN [result |-> currentFocus, consulted |-> seen, crashed |-> FALSE]
            ELSE BoxLayout_scanNext(bl,
                     IF forward THEN it + 1
                     ELSE IF it = 0 THEN Len(children[bl]) ELSE it - 1,
                     forward, seen, ub)

BoxLayout_getNextFocus(bl, direction, currentView, ub) ==
    IF \/ (orientation[bl] = "HORIZONTAL" /\ direction # "LEFT" /\ direction # "RIGHT")
       \/ (orientation[bl] = "VERTICAL" /\ direction # "UP" /\ direction # "DOWN")
    THEN [result |-> NoView, consulted |-> <<>>, crashed |-> FALSE]
    ELSE LET forward == ~ \/ (orientation[bl] = "HORIZONTAL" /\ direction = "LEFT")
                          \/ (orientation[bl] = "VERTICAL" /\ direction = "UP")
             cur == IndexOfNode(bl, parentUserdata[currentView])
         IN IF (~forward) /\ cur = 0
            THEN (IF ub = "crash"
                  THEN [result |-> NoView, consulted |-> <<>>, crashed |-> TRUE]
                  ELSE [result |-> NoView, consulted |-> <<>>, crashed |-> FALSE])
            ELSE BoxLayout_scanNext(bl, IF forward THEN cur + 1 ELSE cur - 1,
                                    forward, <<>>, ub)

\* ------------------------------------------------------------- operations

\* YGNodeInsertChild(node, child, index) on the child list of a layout node
YGNodeInsertChild(list, child, index) ==
    SubSeq(list, 1, index) \o <<child>> \o SubSeq(list, index + 1, Len(list))

\* a Box::addView that takes the position after the push_back
Box_addView_positionAfterPush(b, view) ==
    /\ \A bl \in BoxLayouts : children[bl] = <<>>
    /\ ~YGOwned(view)
    /\ ~InSubtree(view, b)
    /\ children' = [children EXCEPT ![b] = Append(@, view)]
    /\ ygChildren' = [ygChildren EXCEPT ![b] = Append(@, view)]
    /\ parent' = [parent EXCEPT ![view] = b]
    /\ parentUserdata' = [parentUserdata EXCEPT ![view] = Len(children'[b])]
    /\ UNCHANGED <<axis, orientation, focusable, blDefaultFocusedIndex>>

\* Box::addView.  YGNodeInsertChild refuses a node that already has an owner, and
\* a box put below itself would make invalidate() and getDefaultFocus() recurse
\* without end: the model stops where the program does.
Box_addView(b, view) ==
    /\ \A bl \in BoxLayouts : children[bl] = <<>>
    /\ ~YGOwned(view)
    /\ ~InSubtree(view, b)
    /\ LET position == Len(ygChildren[b])
       IN /\ children' = [children EXCEPT ![b] = Append(@, view)]
          /\ ygChildren' = [ygChildren EXCEPT ![b] = YGNodeInsertChild(@, view, position)]
          /\ parent' = [parent EXCEPT ![view] = b]
          /\ parentUserdata' = [parentUserdata EXCEPT ![view] = position]
    /\ UNCHANGED <<axis, orientation, focusable, blDefaultFocusedIndex>>

\* Box::addView called on a box
BoxAddView(b, view) ==
    /\ Box_addView(b, view)
    /\ call' = [op |-> "Box::addView", self |-> b, view |-> view]

\* a fresh position token: no child record and no view holds it
NewNode ==
    LET used == {0} \cup {parentUserdata[v] : v \in {w \in Views : parent[w] \in BoxLayouts}}
                    \cup UNION {{children[bl][k].node : k \in 1..Len(children[bl])} :
                                    bl \in BoxLayouts}
    IN 1 + (CHOOSE m \in used : \A n \in used : n <= m)

\* BoxLayout::addView.  The legacy container is written against the previous View
\* interface (setBoundaries, invalidate(bool), onChildFocusGained(child)): a program
\* holds its views either in Boxes or in BoxLayouts.
BoxLayout_addView(bl, view, fill) ==
    /\ LET child == [view |-> view, fill |-> fill, node |-> NewNode]
       IN /\ children' = [children EXCEPT ![bl] = Append(@, child)]
          /\ parent' = [parent EXCEPT ![view] = bl]
          /\ parentUserdata' = [parentUserdata EXCEPT ![view] = child.node]
    /\ call' = [op |-> "BoxLayout::addView", self |-> bl, view |-> view]
    /\ UNCHANGED <<axis, orientation, focusable, blDefaultFocusedIndex, ygChildren>>

\* BoxLayout::addView of a view that is in no container yet
BoxLayoutAddView(bl, view, fill) ==
    /\ view \in Leaves
    /\ \A b \in Boxes \cup FlatBoxes : children[b] = <<>>
    /\ parent[view] = NoView
    /\ BoxLayout_addView(bl, view, fill)

\* Box::getDefaultFocus called on a box
GetDefaultFocus(b) ==
    /\ call' = [op |-> "Box::getDefaultFocus", self |-> b,
                result |-> Box_getDefaultFocus(b).result,
                consulted |-> Box_getDefaultFocus(b).consulted]
    /\ UNCHANGED treeVars

\* Box::getNextFocus called by the focus walk with one of the box's children
GetNextFocus(b, direction, currentView) ==
    /\ parent[currentView] = b
    /\ call' = [op |-> "Box::getNextFocus", self |-> b, direction |-> direction,
                currentView |-> currentView,
                result |-> Box_getNextFocus(b, direction, currentView).result,
                consulted |-> Box_getNextFocus(b, direction, currentView).consulted]
    /\ UNCHANGED treeVars

BoxLayoutGetDefaultFocus(bl) ==
    /\ call' = [op |-> "BoxLayout::getDefaultFocus", self |-> bl,
                result |-> BoxLayout_getDefaultFocus(bl)]
    /\ UNCHANGED treeVars

BoxLayoutGetNextFocus(bl, direction, currentView, ub) ==
    /\ parent[currentView] = bl
    /\ LET r == BoxLayout_getNextFocus(bl, direction, currentView, ub)
       IN call' = [op |-> "BoxLayout::getNextFocus", self |-> bl, direction |-> direction,
                   currentView |-> currentView, result |-> r.result,
                   consulted |-> r.consulted, crashed |-> r.crashed]
    /\ UNCHANGED treeVars

\* --------------------------------------------------------------- Spec

FillValues == {FALSE}

\* the view tree after the constructors: a ScrollingBox holds its flat box
TreeConstructed ==
    /\ children = [c \in Containers |->
                      IF c \in ScrollingBoxes THEN <<flatBox(c)>> ELSE <<>>]
    /\ parent = [v \in Views |->
                    IF v \in FlatBoxes
                    THEN CHOOSE s \in ScrollingBoxes : flatBox(s) = v
                    ELSE NoView]
    /\ parentUserdata = [v \in Views |-> IF v \in FlatBoxes THEN 0 ELSE Null]
    /\ blDefaultFocusedIndex = [bl \in BoxLayouts |-> 0]
    /\ ygChildren = [b \in BoxLikes |-> IF b \in ScrollingBoxes THEN <<flatBox(b)>> ELSE <<>>]

CollapseScale == 2
ZeroRect == [left |-> 0, top |-> 0, width |-> 0, height |-> 0]

\* the geometry fields after the constructors, before any layout
GeomConstructed ==
    /\ ygHeight = [v \in Views |-> IF v \in FlatBoxes THEN 0 ELSE AUTO]
    /\ ygLayout = [v \in Views |-> ZeroRect]
    /\ culled = [v \in Views |-> v \notin FlatBoxes]
    /\ collapseState = [v \in Views |-> CollapseScale]

\* A float that is a fraction num/den in lowest terms, den > 0; den = 0 is what a
\* division by 0.0 gives: NaN for 0/0 (num = 0), else plus or minus infinity.
Abs(x) == IF x < 0 THEN 0 - x ELSE x
Sign(x) == IF x < 0 THEN 0 - 1 ELSE IF x > 0 THEN 1 ELSE 0
RECURSIVE GCD(_, _)
GCD(a, b) == IF b = 0 THEN a ELSE GCD(b, a % b)
Frac(n, d) ==
    IF d = 0 THEN [num |-> Sign(n), den |-> 0]
    ELSE [num |-> n \div GCD(Abs(n), d), den |-> d \div GCD(Abs(n), d)]
NaN == Frac(0, 0)
Zero == Frac(0, 1)
IsNaN(f) == f.den = 0 /\ f.num = 0
\* f * c, f + i, -f, abs(f), f / c for a float f and integers c >= 0, i
FracTimes(f, c) ==
    IF f.den = 0 THEN (IF c = 0 THEN NaN ELSE f) ELSE Frac(f.num * c, f.den)
FracPlus(f, i) == IF f.den = 0 THEN f ELSE Frac(f.num + i * f.den, f.den)
FracNeg(f) == [num |-> 0 - f.num, den |-> f.den]
FracAbs(f) == [num |-> Abs(f.num), den |-> f.den]
FracDiv(f, c) ==
    IF f.den = 0 THEN f
    ELSE IF c = 0 THEN Frac(f.num, 0)
    ELSE Frac(f.num, f.den * c)
\* the comparisons of a float with an integer, false on NaN; the equality of floats
FracLess(f, i) == IF f.den = 0 THEN f.num < 0 ELSE f.num < i * f.den
FracGreater(f, i) == IF f.den = 0 THEN f.num > 0 ELSE f.num > i * f.den
FracEq(f, g) == f = g /\ ~IsNaN(f)
\* no interpolation in flight
NoAnim == [num |-> 0 - 1, den |-> 0 - 1]

\* the declared margins and positions after the constructors
NoPadding == [top |-> 0, right |-> 0, bottom |-> 0, left |-> 0]
StyleConstructed ==
    /\ ygMarginTop = [v \in Views |-> 0]
    /\ ygMarginBottom = [v \in Views |-> 0]
    /\ ygPositionTop = [v \in Views |-> 0]
    /\ ygWidth = [v \in Views |-> AUTO]
    /\ ygMarginRight = [v \in Views |-> 0]
    /\ ygMarginLeft = [v \in Views |-> 0]
    /\ ygPadding = [b \in BoxLikes |-> NoPadding]

\* the scrolling fields after the constructors (scrolling_box.hpp)
ScrollConstructed ==
    /\ scrollY = [s \in ScrollingBoxes |-> Zero]
    /\ middleY = [s \in ScrollingBoxes |-> 0]
    /\ bottomY = [s \in ScrollingBoxes |-> 0]
    /\ updateScrollingOnNextFrame = [s \in ScrollingBoxes |-> FALSE]
    /\ scrollAnim = [s \in ScrollingBoxes |-> NoAnim]
    /\ Application_currentFocus = NoView

\* the animated fields and the focus fields after the constructors (view.hpp), no
\* interpolation in flight, no view destroyed
LifeConstructed ==
    /\ animations = <<>>
    /\ alpha = [v \in Views |-> Frac(1, 1)]
    /\ highlightAlpha = [v \in Views |-> Zero]
    /\ hidden = [v \in Views |-> FALSE]
    /\ fadeIn = [v \in Views |-> FALSE]
    /\ focused = [v \in Views |-> FALSE]
    /\ destroyed = {}
    /\ rememberFocus = [bl \in BoxLayouts |-> FALSE]
    /\ originalDefaultFocus = [bl \in BoxLayouts |-> 0]
    /\ childFocused = [bl \in BoxLayouts |-> FALSE]

\* the attribute maps before the constructor registers anything
NoAttributes ==
    /\ autoAttributes = {}
    /\ floatAttributes = {}
    /\ percentageAttributes = {}
    /\ stringAttributes = {}
    /\ colorAttributes = {}
    /\ knownAttributes = {}

Init ==
    /\ TreeConstructed
    /\ GeomConstructed
    /\ StyleConstructed
    /\ ScrollConstructed
    /\ NoAttributes
    /\ LifeConstructed
    /\ axis \in [BoxLikes -> Axes]
    /\ \A b \in ScrollingBoxes \cup FlatBoxes : axis[b] = "COLUMN"
    /\ orientation \in [BoxLayouts -> Orientations]
    /\ focusable \in [Leaves -> BOOLEAN]
    /\ call = NoCall

\* the focus operations leave the geometry, the styles and the scrolling alone
GeomUnchanged == UNCHANGED <<geomVars, styleVars, scrollVars, attrVars, lifeVars>>

Next ==
    \/ \E b \in Boxes, v \in Boxes \cup Leaves : BoxAddView(b, v) /\ GeomUnchanged
    \/ \E bl \in BoxLayouts, v \in Leaves, fill \in FillValues :
           BoxLayoutAddView(bl, v, fill) /\ GeomUnchanged
    \/ \E b \in Boxes : GetDefaultFocus(b) /\ GeomUnchanged
    \/ \E b \in Boxes, d \in FocusDirections, v \in Views :
           GetNextFocus(b, d, v) /\ GeomUnchanged
    \/ \E bl \in BoxLayouts : BoxLayoutGetDefaultFocus(bl) /\ GeomUnchanged
    \/ \E bl \in BoxLayouts, d \in FocusDirections, v \in Views, ub \in UBOutcomes :
           BoxLayoutGetNextFocus(bl, d, v, ub) /\ GeomUnchanged

Spec == Init /\ [][Next]_vars

\* ------------------------------------------------------ claims under Spec

Min(S) == CHOOSE m \in S : \A n \in S : m <= n
Max(S) == CHOOSE m \in S : \A n \in S : n <= m

\* the indices of the children of b whose own getDefaultFocus is non-none
Accepting(b) ==
    {i \in 0..(Len(children[b]) - 1) : View_getDefaultFocus(At(children[b], i)) # NoView}

\* C1: Box::getDefaultFocus returns the default focus of the lowest-index child whose
\* own getDefaultFocus is non-none, and none when every child declines (an empty box
\* included).
C1_DefaultFocusIsFirstAcceptor ==
    call.op = "Box::getDefaultFocus" =>
        IF Accepting(call.self) = {}
        THEN call.result = NoView
        ELSE call.result =
                 View_getDefaultFocus(At(children[call.self], Min(Accepting(call.self))))

\* a box whose first child declines and which has two accepting children
C1_Witness ==
    /\ call.op = "Box::getDefaultFocus"
    /\ Cardinality(Accepting(call.self)) >= 2
    /\ Min(Accepting(call.self)) > 0
    /\ call.result # NoView

\* the directions the claim calls incompatible with an axis or an orientation
CrossDirection(ax, direction) ==
    \/ (ax \in {"ROW", "HORIZONTAL"} /\ direction \in {"UP", "DOWN"})
    \/ (ax \in {"COLUMN", "VERTICAL"} /\ direction \in {"LEFT", "RIGHT"})

\* C2: a ROW box returns none for UP and DOWN, a COLUMN box for LEFT and RIGHT, whatever
\* the children and the current view; the same for a HORIZONTAL and a VERTICAL
\* BoxLayout; no child's getDefaultFocus is consulted.
C2_CrossAxisReturnsNone ==
    /\ (call.op = "Box::getNextFocus" /\ CrossDirection(axis[call.self], call.direction))
           => (call.result = NoView /\ call.consulted = <<>>)
    /\ (call.op = "BoxLayout::getNextFocus"
           /\ CrossDirection(orientation[call.self], call.direction))
           => (call.result = NoView /\ call.consulted = <<>> /\ ~call.crashed)

\* a cross-axis query on a box that has accepting children on both sides
C2_Witness ==
    /\ call.op = "Box::getNextFocus"
    /\ CrossDirection(axis[call.self], call.direction)
    /\ \E i, j \in Accepting(call.self) :
           i < parentUserdata[call.currentView] /\ parentUserdata[call.currentView] < j

\* the accepting siblings on the side of index i the direction scans
Candidates(b, i, direction) ==
    {j \in Accepting(b) : IF direction \in {"RIGHT", "DOWN"} THEN j > i ELSE j < i}

\* C3: on a compatible direction Box::getNextFocus returns the default focus of the
\* nearest accepting sibling in the scan direction (smallest j > i for RIGHT/DOWN,
\* largest j < i for LEFT/UP), none when there is none, and consults no child on the
\* other side: LEFT/UP from index 0 and RIGHT/DOWN from the last index return none.
C3_NextFocusIsNearestAcceptor ==
    (call.op = "Box::getNextFocus" /\ ~CrossDirection(axis[call.self], call.direction)) =>
        LET b == call.self
            i == parentUserdata[call.currentView]
            cands == Candidates(b, i, call.direction)
        IN /\ IF cands = {}
              THEN call.result = NoView
              ELSE call.result =
                       View_getDefaultFocus(At(children[b],
                           IF call.direction \in {"RIGHT", "DOWN"}
                           THEN Min(cands) ELSE Max(cands)))
           /\ \A k \in 1..Len(call.consulted) :
                  IF call.direction \in {"RIGHT", "DOWN"}
                  THEN call.consulted[k] > i ELSE call.consulted[k] < i

\* LEFT/UP from index 0 with an accepting sibling after it: the index wraps, none is returned
C3_Witness ==
    /\ call.op = "Box::getNextFocus"
    /\ ~CrossDirection(axis[call.self], call.direction)
    /\ call.direction \in {"LEFT", "UP"}
    /\ parentUserdata[call.currentView] = 0
    /\ Accepting(call.self) \ {0} # {}
    /\ call.result = NoView

RECURSIVE View_getX(_)
View_getX(v) ==
    IF parent[v] # NoView THEN View_getX(parent[v]) + ygLayout[v].left
    ELSE ygLayout[v].left

RECURSIVE View_getY(_)
View_getY(v) ==
    IF parent[v] # NoView THEN View_getY(parent[v]) + ygLayout[v].top
    ELSE ygLayout[v].top

\* View::getHeight(includeCollapse = true), View::getWidth
View_getHeight(v) == (ygLayout[v].height * collapseState[v]) \div CollapseScale
View_getWidth(v) == ygLayout[v].width

\* Box::getCullingBounds, and the override of ScrollingBoxInternalBox that pipes
\* the bounds of the containing ScrollingBox
RECURSIVE Box_getCullingBounds(_)
Box_getCullingBounds(b) ==
    IF b \in FlatBoxes THEN Box_getCullingBounds(parent[b])
    ELSE [top    |-> View_getY(b),
          left   |-> View_getX(b),
          right  |-> View_getX(b) + View_getWidth(b),
          bottom |-> View_getY(b) + View_getHeight(b)]

\* a variant of the bounds test of Box::draw that also skips a child touching an edge
Box_draw_outOfBounds_touching(b, child) ==
    LET childTop    == View_getY(child)
        childLeft   == View_getX(child)
        childRight  == childLeft + View_getWidth(child)
        childBottom == childTop + View_getHeight(child)
        bounds      == Box_getCullingBounds(b)
    IN \/ childBottom <= bounds.top
       \/ childRight <= bounds.left
       \/ childLeft >= bounds.right
       \/ childTop >= bounds.bottom

\* the bounds test of Box::draw
Box_draw_outOfBounds(b, child) ==
    LET childTop    == View_getY(child)
        childLeft   == View_getX(child)
        childRight  == childLeft + View_getWidth(child)
        childBottom == childTop + View_getHeight(child)
        bounds      == Box_getCullingBounds(b)
    IN \/ childBottom < bounds.top       \* too high
       \/ childRight < bounds.left       \* too far left
       \/ childLeft > bounds.right       \* too far right
       \/ childTop > bounds.bottom       \* too low

\* Box::draw: the children that get child->frame(ctx), in the order of the calls
RECURSIVE Box_drawFrom(_, _)
Box_drawFrom(b, k) ==
    IF k > Len(children[b]) THEN <<>>
    ELSE LET child == children[b][k]
         IN IF culled[child] /\ Box_draw_outOfBounds(b, child)
            THEN Box_drawFrom(b, k + 1)
            ELSE <<child>> \o Box_drawFrom(b, k + 1)

Box_draw(b) == Box_drawFrom(b, 1)

\* the root that View::invalidate reaches from v, in the tree par
RECURSIVE RootIn(_, _)
RootIn(par, v) == IF par[v] # NoView THEN RootIn(par, par[v]) ELSE v

\* The computed layouts the model draws for a view placed in a container: all are
\* 2 x 2; the culling rectangle of a root is 4 x 4 at the origin.
RectAt(l, t) == [left |-> l, top |-> t, width |-> 2, height |-> 2]
RectSamples ==
    { RectAt(1, 1),          \* inside
      RectAt(1, 0 - 2),      \* its bottom on the top edge
      RectAt(1, 0 - 4),      \* above
      RectAt(4, 1),          \* its left on the right edge
      RectAt(6, 1),          \* to the right
      RectAt(0 - 4, 1),      \* to the left
      RectAt(1, 6) }         \* below
RootRect == [left |-> 0, top |-> 0, width |-> 4, height |-> 4]
\* the offsets of a flat box: not scrolled, scrolled by 2
FlatTops == {0, 0 - 2}

\* YGNodeCalculateLayout on the root reached from v, after a change of the styles
\* of the view `changed'.  The styles that decide the computed layout (positions,
\* widths, margins, flex) are not modelled: the result is any layout of the tree
\* in which `changed' (and a flat box, which scrolls) may have moved.
YGNodeCalculateLayout(par, v, changed) ==
    LET root == RootIn(par, v)
    IN \E rect \in RectSamples, flatTop \in FlatTops :
          ygLayout' = [w \in Views |->
                          IF RootIn(par, w) # root THEN ygLayout[w]
                          ELSE IF w \in Leaves
                               THEN (IF w = changed /\ par[w] # NoView THEN rect
                                     ELSE ygLayout[w])
                          ELSE IF w \in FlatBoxes
                               THEN [left |-> 0, top |-> flatTop, width |-> 4, height |-> 0]
                          ELSE IF w \in BoxLikes THEN RootRect
                          ELSE ygLayout[w]]

\* a variant of ScrollingBox::addView that accepts every view
ScrollingBox_addView_unchecked(view) == FALSE

\* ScrollingBox::addView: the error leaves everything as it was
ScrollingBox_addView_error(view) == ygHeight[view] = AUTO
ScrollingBox_addView(s, view) ==
    IF ScrollingBox_addView_error(view)
    THEN UNCHANGED treeVars
    ELSE Box_addView(flatBox(s), view)

\* the view a program constructs next (none when all are placed): views are added
\* as they are created
NewViews == {v \in Leaves : parent[v] = NoView /\ \A w \in Leaves : parent[w] = NoView => v <= w}

\* Box::addView, with the layout its invalidate() computes
DrawBoxAddView(b, view) ==
    /\ Box_addView(b, view)
    /\ YGNodeCalculateLayout(parent', b, view)
    /\ call' = NoCall
    /\ UNCHANGED <<ygHeight, culled, collapseState>>

\* ScrollingBox::addView of a view with a declared height
DrawScrollingBoxAddView(s, view) ==
    /\ ~ScrollingBox_addView_error(view)
    /\ ScrollingBox_addView(s, view)
    /\ YGNodeCalculateLayout(parent', s, view)
    /\ call' = NoCall
    /\ UNCHANGED <<ygHeight, culled, collapseState>>

\* View::setCulled
SetCulled(v, c) ==
    /\ culled[v] # c
    /\ culled' = [culled EXCEPT ![v] = c]
    /\ call' = NoCall
    /\ UNCHANGED <<treeVars, ygHeight, ygLayout, collapseState>>

\* View::collapse(false)
Collapse(v) ==
    /\ collapseState[v] # 0
    /\ collapseState' = [collapseState EXCEPT ![v] = 0]
    /\ call' = NoCall
    /\ UNCHANGED <<treeVars, ygHeight, ygLayout, culled>>

\* View::expand(false)
Expand(v) ==
    /\ collapseState[v] # CollapseScale
    /\ collapseState' = [collapseState EXCEPT ![v] = CollapseScale]
    /\ call' = NoCall
    /\ UNCHANGED <<treeVars, ygHeight, ygLayout, culled>>

\* View::invalidate called on a view of a tree, after a change of its styles
Invalidate(v) ==
    /\ YGNodeCalculateLayout(parent, v, v)
    /\ ygLayout' # ygLayout
    /\ call' = NoCall
    /\ UNCHANGED <<treeVars, ygHeight, culled, collapseState>>

\* Box::draw called by the frame of a box
Draw(b) ==
    /\ call' = [op |-> "Box::draw", self |-> b, framed |-> Box_draw(b)]
    /\ UNCHANGED <<treeVars, geomVars>>

\* the boxes SpecDraw draws: a plain box and the flat box of a ScrollingBox
DrawnBoxes == {1} \cup FlatBoxes
\* the height every view of SpecDraw declares
DeclaredHeight == 2

InitDraw ==
    /\ TreeConstructed
    /\ axis = [b \in BoxLikes |-> "COLUMN"]
    /\ orientation = [bl \in BoxLayouts |-> "VERTICAL"]
    /\ focusable = [v \in Leaves |-> TRUE]
    /\ ygHeight = [v \in Views |-> IF v \in FlatBoxes THEN 0
                                   ELSE IF v \in Leaves THEN DeclaredHeight ELSE AUTO]
    /\ ygLayout = [v \in Views |-> IF v \in BoxLikes \ FlatBoxes THEN RootRect ELSE ZeroRect]
    /\ culled = [v \in Views |-> v \notin FlatBoxes]
    /\ collapseState = [v \in Views |-> CollapseScale]
    /\ StyleConstructed
    /\ ScrollConstructed
    /\ NoAttributes
    /\ LifeConstructed
    /\ call = NoCall

\* drawing leaves the declared styles and the scrolling alone
DrawUnchanged == UNCHANGED <<styleVars, scrollVars, attrVars, lifeVars>>

NextDraw ==
    \/ \E v \in NewViews : DrawBoxAddView(1, v) /\ DrawUnchanged
    \/ \E s \in ScrollingBoxes, v \in NewViews :
          DrawScrollingBoxAddView(s, v) /\ DrawUnchanged
    \/ \E v \in Leaves, c \in BOOLEAN : SetCulled(v, c) /\ DrawUnchanged
    \/ \E v \in Leaves : Collapse(v) /\ DrawUnchanged
    \/ \E v \in Leaves : Expand(v) /\ DrawUnchanged
    \/ \E v \in Leaves \cup FlatBoxes : Invalidate(v) /\ DrawUnchanged
    \/ \E b \in DrawnBoxes : Draw(b) /\ DrawUnchanged

SpecDraw == InitDraw /\ [][NextDraw]_vars

\* the closed intervals [a1, a2] and [b1, b2] have a point in common
Meets(a1, a2, b1, b2) == \E p \in (0 - 16)..16 : a1 <= p /\ p <= a2 /\ b1 <= p /\ p <= b2

\* the rectangle of a child meets the culling rectangle of the box: they overlap or
\* share at least a point of an edge
InBounds(b, child) ==
    LET bounds == Box_getCullingBounds(b)
    IN /\ Meets(View_getX(child), View_getX(child) + View_getWidth(child),
                bounds.left, bounds.right)
       /\ Meets(View_getY(child), View_getY(child) + View_getHeight(child),
                bounds.top, bounds.bottom)

RECURSIVE Filter(_, _)
Filter(seq, keep) ==
    IF seq = <<>> THEN <<>>
    ELSE (IF Head(seq) \in keep THEN <<Head(seq)>> ELSE <<>>) \o Filter(Tail(seq), keep)

\* C4: a draw of a box gives one frame call, in insertion order, to exactly the
\* children that opted out of culling or whose effective rectangle overlaps or
\* touches the box's culling rectangle; a culled child strictly outside on one of
\* the four sides gets none.
C4_DrawFramesExactlyTheChildrenInBounds ==
    call.op = "Box::draw" =>
        call.framed = Filter(children[call.self],
                             {c \in Range(children[call.self]) :
                                 ~culled[c] \/ InBounds(call.self, c)})

\* a draw that skips a culled child and frames another one that only touches an edge
C4_Witness ==
    /\ call.op = "Box::draw"
    /\ \E c \in Range(children[call.self]) :
          culled[c] /\ c \notin Range(call.framed)
    /\ \E c \in Range(children[call.self]) :
          /\ culled[c] /\ c \in Range(call.framed)
          /\ \/ View_getY(c) + View_getHeight(c) = Box_getCullingBounds(call.self).top
             \/ View_getX(c) = Box_getCullingBounds(call.self).right


(***************************************************************************)
(* The content of a ScrollingBox: SpecScroll.                              *)
(***************************************************************************)

\* ntz: NaN (the undefined value of the layout engine) to zero
ntz(value) == IF value = AUTO THEN 0 ELSE value

\* The layout engine on a column of children with declared heights and margins
\* (YGNodeCalculateLayout on the tree of a ScrollingBox): a child's computed top
\* includes its own top margin and follows the bottom margin of the child before
\* it; the flat box sits at its declared top position; a height left undefined on
\* a view without content computes as 0.
YGLayoutHeight(hts, v) == ntz(hts[v])
RECURSIVE YGLayoutTop(_, _, _, _, _)
YGLayoutTop(seq, k, hts, mts, mbs) ==
    IF k = 1 THEN mts[seq[1]]
    ELSE YGLayoutTop(seq, k - 1, hts, mts, mbs) + YGLayoutHeight(hts, seq[k - 1])
         + mbs[seq[k - 1]] + mts[seq[k]]

AreaWidth == 4
YGColumnLayout(old, ch, par, ud, hts, mts, mbs, pos) ==
    [v \in Views |->
        IF v \in Leaves /\ par[v] \in FlatBoxes
        THEN [left |-> 0, top |-> YGLayoutTop(ch[par[v]], ud[v] + 1, hts, mts, mbs),
              width |-> AreaWidth, height |-> YGLayoutHeight(hts, v)]
        ELSE IF v \in Leaves
        THEN [left |-> 0, top |-> 0, width |-> 0, height |-> YGLayoutHeight(hts, v)]
        ELSE IF v \in FlatBoxes
        THEN [left |-> 0, top |-> pos[v], width |-> AreaWidth, height |-> 0]
        ELSE IF v \in ScrollingBoxes
        THEN [left |-> 0, top |-> 0, width |-> AreaWidth, height |-> YGLayoutHeight(hts, v)]
        ELSE old[v]]

\* View::invalidate at the end of an operation: the layout of the new styles
InvalidateColumn ==
    ygLayout' = YGColumnLayout(ygLayout, children', parent', parentUserdata', ygHeight',
                               ygMarginTop', ygMarginBottom', ygPositionTop')

\* ScrollingBox::getContentHeight
ScrollingBox_getContentHeight(s) ==
    LET flatBoxChildren == children[flatBox(s)]
    IN IF Len(flatBoxChildren) = 0 THEN 0
       ELSE LET firstChild == At(flatBoxChildren, 0)
                lastChild  == At(flatBoxChildren, Len(flatBoxChildren) - 1)
            IN ygLayout[lastChild].top
               + (ygLayout[lastChild].height + ntz(ygMarginBottom[lastChild]))
               - ygLayout[firstChild].top

\* View::setHeight
SetHeight(v, height) ==
    /\ ygHeight' = [ygHeight EXCEPT ![v] = height]
    /\ call' = NoCall
    /\ UNCHANGED <<treeVars, culled, collapseState, styleVars, scrollVars>>
    /\ InvalidateColumn

\* View::setMarginTop
SetMarginTop(v, top) ==
    /\ ygMarginTop' = [ygMarginTop EXCEPT ![v] = top]
    /\ call' = NoCall
    /\ UNCHANGED <<treeVars, ygHeight, culled, collapseState, ygMarginBottom,
                   ygPositionTop, ygWidth, ygMarginRight, ygMarginLeft, ygPadding,
                   scrollVars>>
    /\ InvalidateColumn

\* View::setMarginBottom
SetMarginBottom(v, bottom) ==
    /\ ygMarginBottom' = [ygMarginBottom EXCEPT ![v] = bottom]
    /\ call' = NoCall
    /\ UNCHANGED <<treeVars, ygHeight, culled, collapseState, ygMarginTop,
                   ygPositionTop, ygWidth, ygMarginRight, ygMarginLeft, ygPadding,
                   scrollVars>>
    /\ InvalidateColumn

\* ScrollingBox::addView called on a scrolling box
ScrollingBoxAddView(s, view) ==
    /\ ScrollingBox_addView(s, view)
    /\ call' = [op |-> "ScrollingBox::addView", self |-> s, view |-> view,
                error |-> ScrollingBox_addView_error(view)]
    /\ UNCHANGED <<ygHeight, culled, collapseState, styleVars, scrollVars>>
    /\ IF ScrollingBox_addView_error(view) THEN UNCHANGED ygLayout ELSE InvalidateColumn

\* ScrollingBox::getContentHeight called on a scrolling box
GetContentHeight(s) ==
    /\ call' = [op |-> "ScrollingBox::getContentHeight", self |-> s,
                result |-> ScrollingBox_getContentHeight(s)]
    /\ UNCHANGED <<treeVars, geomVars, styleVars, scrollVars, lifeVars>>

\* the heights and the margins the views of SpecScroll declare
HeightValues == {AUTO, 0, 2}
MaxMargin == 1
MarginValues == 0..MaxMargin

InitScroll ==
    /\ TreeConstructed
    /\ GeomConstructed
    /\ StyleConstructed
    /\ ScrollConstructed
    /\ axis = [b \in BoxLikes |-> "COLUMN"]
    /\ orientation = [bl \in BoxLayouts |-> "VERTICAL"]
    /\ focusable = [v \in Leaves |-> TRUE]
    /\ NoAttributes
    /\ LifeConstructed
    /\ call = NoCall

\* the operations on the content leave the attribute maps alone
AttrUnchanged == UNCHANGED <<attrVars, lifeVars>>

NextScroll ==
    \/ \E v \in Leaves, h \in HeightValues : SetHeight(v, h) /\ AttrUnchanged
    \/ \E v \in Leaves, m \in MarginValues : SetMarginTop(v, m) /\ AttrUnchanged
    \/ \E v \in Leaves, m \in MarginValues : SetMarginBottom(v, m) /\ AttrUnchanged
    \/ \E s \in ScrollingBoxes, v \in Leaves : ScrollingBoxAddView(s, v) /\ AttrUnchanged
    \/ \E s \in ScrollingBoxes : GetContentHeight(s) /\ AttrUnchanged

SpecScroll == InitScroll /\ [][NextScroll]_vars

\* C5: ScrollingBox::addView raises its error exactly for a view whose declared
\* height is undefined, and then the child sequences, the parents and the computed
\* layout stay as they were; for a declared height it appends the view to the flat
\* box; the ScrollingBox's own children are always exactly its flat box.
C5_AddViewRejectsAutoHeightAndForwards ==
    [][/\ \A s \in ScrollingBoxes : children'[s] = <<flatBox(s)>>
       /\ call'.op = "ScrollingBox::addView" =>
            /\ call'.error <=> (ygHeight[call'.view] = AUTO)
            /\ call'.error =>
                  UNCHANGED <<children, parent, parentUserdata, ygLayout>>
            /\ ~call'.error =>
                  /\ children'[flatBox(call'.self)] =
                        Append(children[flatBox(call'.self)], call'.view)
                  /\ parent'[call'.view] = flatBox(call'.self)]_vars

\* a rejected addView on a scrolling box that already holds a view
C5_Witness ==
    /\ call.op = "ScrollingBox::addView"
    /\ call.error
    /\ ygHeight[call.view] = AUTO
    /\ parent[call.view] = NoView
    /\ \E s \in ScrollingBoxes : Len(children[flatBox(s)]) >= 1

\* the span the content of a scrolling box covers: the first child's top margin,
\* all heights, all margins between and after them
RECURSIVE FullSpan(_)
FullSpan(seq) ==
    IF seq = <<>> THEN 0
    ELSE ygMarginTop[Head(seq)] + ygHeight[Head(seq)] + ygMarginBottom[Head(seq)]
         + FullSpan(Tail(seq))

\* C7: getContentHeight is the span from the first child's top, its own top margin
\* included, to the last child's bottom, its own bottom margin included, and 0
\* when the flat box has no child.
C7_ContentHeightIsFullSpan ==
    (/\ call.op = "ScrollingBox::getContentHeight"
     /\ \A c \in Range(children[flatBox(call.self)]) : ygHeight[c] # AUTO)
    => call.result = FullSpan(children[flatBox(call.self)])


(***************************************************************************)
(* Scrolling to the focused view: SpecScrolling.                           *)
(***************************************************************************)

\* the padding the layout engine computed for a scrolling box: none is declared
YGNodeLayoutGetPadding(s) == 0

\* ScrollingBox::getScrollingAreaTopBoundary, ScrollingBox::getScrollingAreaHeight
ScrollingBox_getScrollingAreaTopBoundary(s) ==
    View_getY(s) + ntz(YGNodeLayoutGetPadding(s))
ScrollingBox_getScrollingAreaHeight(s) ==
    View_getHeight(s) - ntz(YGNodeLayoutGetPadding(s)) - ntz(YGNodeLayoutGetPadding(s))

\* the conversion of a float n/2 to int: towards zero
TruncHalves(n) == IF n >= 0 THEN n \div 2 ELSE 0 - ((0 - n) \div 2)

\* ScrollingBox::updateScrolling up to its call of startScrolling, for a focused
\* view at focusY of height focusHeight: whether it returns true, the scroll it
\* passes on, and which boundary test replaced the target last
ScrollingBox_updateScrolling(s, focusY, focusHeight) ==
    IF Len(children[flatBox(s)]) = 0
    THEN [returned |-> FALSE, newScroll |-> scrollY[s], contentHeight |-> 0,
          clamp |-> "none"]
    ELSE
    LET contentHeight == ScrollingBox_getContentHeight(s)
        currentSelectionMiddleOnScreen == TruncHalves(2 * focusY + focusHeight)
        target == FracPlus(FracNeg(FracTimes(scrollY[s], contentHeight)),
                           0 - (currentSelectionMiddleOnScreen - middleY[s]))
        \* Bottom boundary
        bottom == FracLess(FracPlus(target,
                               ScrollingBox_getScrollingAreaTopBoundary(s) + contentHeight),
                           bottomY[s])
        afterBottom == IF bottom
                       THEN Frac(ScrollingBox_getScrollingAreaHeight(s) - contentHeight, 1)
                       ELSE target
        \* Top boundary
        top == FracGreater(afterBottom, 0)
        afterTop == IF top THEN Zero ELSE afterBottom
    IN [returned |-> TRUE,
        \* Apply 0.0f -> 1.0f scale
        newScroll |-> FracDiv(FracAbs(afterTop), contentHeight),
        contentHeight |-> contentHeight,
        clamp |-> IF top THEN "top" ELSE IF bottom THEN "bottom" ELSE "none"]

\* ScrollingBox::startScrolling: the fields it changes.  The flat box is moved by
\* scrollAnimationTick only.
ScrollingBox_startScrolling(s, animated, newScroll) ==
    IF FracEq(newScroll, scrollY[s])
    THEN UNCHANGED <<scrollY, scrollAnim>>
    ELSE IF animated
         THEN /\ scrollAnim' = [scrollAnim EXCEPT ![s] = newScroll]
              /\ UNCHANGED scrollY
         ELSE /\ scrollAnim' = [scrollAnim EXCEPT ![s] = NoAnim]
              /\ scrollY' = [scrollY EXCEPT ![s] = newScroll]

\* what reading the focused view gives when there is none: the call through the
\* null pointer is undefined, the build crashes or reads some memory
NullFocusOutcomes == {"crash", "read"}

\* the record of an updateScrolling that did not run
NoUpdate == [ran |-> FALSE]

\* updateScrolling when Application::getCurrentFocus() gives focusedView
UpdateScrolling(s, animated, ub, focusedView) ==
    LET nullRead == focusedView = NoView /\ Len(children[flatBox(s)]) # 0
        u == IF focusedView = NoView THEN ScrollingBox_updateScrolling(s, 0, 0)
             ELSE ScrollingBox_updateScrolling(s, View_getY(focusedView),
                                               View_getHeight(focusedView))
    IN IF nullRead /\ ub = "crash"
       THEN [ran |-> TRUE, crashed |-> TRUE, returned |-> FALSE]
       ELSE [ran |-> TRUE, crashed |-> FALSE, returned |-> u.returned,
             animated |-> animated, newScroll |-> u.newScroll,
             contentHeight |-> u.contentHeight,
             areaHeight |-> ScrollingBox_getScrollingAreaHeight(s),
             clamp |-> u.clamp]

\* the scrolling fields after an updateScrolling with the record u
ApplyUpdate(s, u) ==
    IF u.ran /\ ~u.crashed /\ u.returned
    THEN ScrollingBox_startScrolling(s, u.animated, u.newScroll)
    ELSE UNCHANGED <<scrollY, scrollAnim>>

\* ScrollingBox::addView while the content is built
ScrollingAddView(s, view) ==
    /\ ScrollingBox_addView(s, view)
    /\ ~ScrollingBox_addView_error(view)
    /\ call' = [op |-> "ScrollingBox::addView", self |-> s, view |-> view,
                error |-> FALSE]
    /\ UNCHANGED <<ygHeight, culled, collapseState, styleVars, scrollVars>>
    /\ InvalidateColumn

\* ScrollingBox::willAppear: prebakeScrolling, then the reset
WillAppear(s, resetState) ==
    /\ middleY' = [middleY EXCEPT ![s] = ScrollingBox_getScrollingAreaTopBoundary(s)
                                          + ScrollingBox_getScrollingAreaHeight(s) \div 2]
    /\ bottomY' = [bottomY EXCEPT ![s] = ScrollingBox_getScrollingAreaTopBoundary(s)
                                          + ScrollingBox_getScrollingAreaHeight(s)]
    /\ IF resetState
       THEN /\ ScrollingBox_startScrolling(s, FALSE, Zero)
            /\ updateScrollingOnNextFrame' = [updateScrollingOnNextFrame EXCEPT ![s] = TRUE]
       ELSE UNCHANGED <<scrollY, scrollAnim, updateScrollingOnNextFrame>>
    /\ call' = [op |-> "ScrollingBox::willAppear", self |-> s, resetState |-> resetState]
    /\ UNCHANGED <<treeVars, geomVars, styleVars, Application_currentFocus>>

\* Application::giveFocus on a view of a scrolling box: View::onFocusGained and
\* the onChildFocusGained of the ancestors, ScrollingBox::onChildFocusGained among
\* them
GiveFocus(s, view, ub) ==
    /\ parent[view] = flatBox(s)
    /\ Application_currentFocus # view
    /\ Application_currentFocus' = view
    /\ LET u == UpdateScrolling(s, TRUE, ub, view)
       IN /\ call' = [op |-> "ScrollingBox::onChildFocusGained", self |-> s, update |-> u]
          /\ ApplyUpdate(s, u)
    /\ UNCHANGED <<treeVars, geomVars, styleVars, middleY, bottomY,
                   updateScrollingOnNextFrame>>

\* ScrollingBox::draw: the pending update, then Box::draw
DrawScrolling(s, ub) ==
    /\ LET u == IF updateScrollingOnNextFrame[s] THEN UpdateScrolling(s, FALSE, ub, Application_currentFocus)
                ELSE NoUpdate
       IN /\ call' = [op |-> "ScrollingBox::draw", self |-> s, update |-> u,
                      framed |-> Box_draw(s)]
          /\ ApplyUpdate(s, u)
          /\ updateScrollingOnNextFrame' =
                [updateScrollingOnNextFrame EXCEPT ![s] = @ /\ ~(u.ran /\ u.returned)]
    /\ UNCHANGED <<treeVars, geomVars, styleVars, middleY, bottomY,
                   Application_currentFocus>>

\* The last tick of the interpolation startScrolling pushed: scrollY has reached
\* its target, ScrollingBox::scrollAnimationTick moves the flat box.  A position
\* that is NaN is no position.
ScrollAnimationTick(s) ==
    /\ scrollAnim[s] # NoAnim
    /\ scrollY' = [scrollY EXCEPT ![s] = scrollAnim[s]]
    /\ scrollAnim' = [scrollAnim EXCEPT ![s] = NoAnim]
    /\ LET position == FracNeg(FracTimes(scrollAnim[s], ScrollingBox_getContentHeight(s)))
       IN ygPositionTop' = [ygPositionTop EXCEPT ![flatBox(s)] =
                               IF position.den = 0 THEN 0 ELSE position.num \div position.den]
    /\ call' = [op |-> "ScrollingBox::scrollAnimationTick", self |-> s]
    /\ UNCHANGED <<treeVars, ygHeight, culled, collapseState, ygMarginTop, ygMarginBottom,
                   ygWidth, ygMarginRight, ygMarginLeft, ygPadding,
                   middleY, bottomY, updateScrollingOnNextFrame, Application_currentFocus>>
    /\ InvalidateColumn

\* the height of the scrolling area and the heights its views declare
AreaHeight == 4
ScrolledHeights == {0, 2, 4}

\* the content is built before the first scroll
Building(s) ==
    /\ scrollY[s] = Zero
    /\ scrollAnim[s] = NoAnim
    /\ Application_currentFocus = NoView

InitScrolling ==
    /\ TreeConstructed
    /\ StyleConstructed
    /\ ScrollConstructed
    /\ axis = [b \in BoxLikes |-> "COLUMN"]
    /\ orientation = [bl \in BoxLayouts |-> "VERTICAL"]
    /\ focusable = [v \in Leaves |-> TRUE]
    /\ ygHeight \in [Views -> ScrolledHeights \cup {AUTO, AreaHeight}]
    /\ \A v \in Views : /\ v \in Leaves => ygHeight[v] \in ScrolledHeights
                        /\ v \in ScrollingBoxes => ygHeight[v] = AreaHeight
                        /\ v \in FlatBoxes => ygHeight[v] = 0
                        /\ v \notin Leaves \cup ScrollingBoxes \cup FlatBoxes
                              => ygHeight[v] = AUTO
    /\ ygLayout = YGColumnLayout([v \in Views |-> ZeroRect], children, parent,
                                 parentUserdata, ygHeight, ygMarginTop, ygMarginBottom,
                                 ygPositionTop)
    /\ culled = [v \in Views |-> v \notin FlatBoxes]
    /\ collapseState = [v \in Views |-> CollapseScale]
    /\ NoAttributes
    /\ LifeConstructed
    /\ call = NoCall

NextScrolling ==
    \/ \E s \in ScrollingBoxes, v \in NewViews :
          Building(s) /\ ScrollingAddView(s, v) /\ AttrUnchanged
    \/ \E s \in ScrollingBoxes, resetState \in BOOLEAN :
          WillAppear(s, resetState) /\ AttrUnchanged
    \/ \E s \in ScrollingBoxes, v \in Leaves, ub \in NullFocusOutcomes :
          GiveFocus(s, v, ub) /\ AttrUnchanged
    \/ \E s \in ScrollingBoxes, ub \in NullFocusOutcomes :
          DrawScrolling(s, ub) /\ AttrUnchanged
    \/ \E s \in ScrollingBoxes : ScrollAnimationTick(s) /\ AttrUnchanged

SpecScrolling == InitScrolling /\ [][NextScrolling]_vars

\* the update of the scroll the last operation ran, if it computed a fraction
Updated == /\ call.op \in {"ScrollingBox::onChildFocusGained", "ScrollingBox::draw"}
           /\ call.update.ran
           /\ ~call.update.crashed
           /\ call.update.returned

\* C6: after updateScrolling on a non-empty scrolling box the scroll fraction is 0
\* when the top boundary clamps the target, (contentHeight - areaHeight) /
\* contentHeight when the bottom boundary does, and always within [0, 1], also when
\* the content is shorter than the scrolling area.
C6_ScrollFractionIsClamped ==
    Updated =>
        LET u == call.update
        IN /\ u.clamp = "top" => u.newScroll = Zero
           /\ u.clamp = "bottom" =>
                 u.newScroll = Frac(u.contentHeight - u.areaHeight, u.contentHeight)
           /\ u.newScroll.den > 0
           /\ 0 <= u.newScroll.num
           /\ u.newScroll.num <= u.newScroll.den


(***************************************************************************)
(* Membership in the containers: SpecTree.  addView of the three           *)
(* containers, called with any view.                                       *)
(***************************************************************************)

MaxChildren == 2

InitTree ==
    /\ TreeConstructed
    /\ GeomConstructed
    /\ StyleConstructed
    /\ ScrollConstructed
    /\ NoAttributes
    /\ LifeConstructed
    /\ axis = [b \in BoxLikes |-> "COLUMN"]
    /\ orientation = [bl \in BoxLayouts |-> "VERTICAL"]
    /\ focusable = [v \in Leaves |-> TRUE]
    /\ call = NoCall

NextTree ==
    \/ \E b \in Boxes, v \in Boxes \cup Leaves : BoxAddView(b, v) /\ GeomUnchanged
    \/ \E v \in Leaves : SetHeight(v, DeclaredHeight) /\ AttrUnchanged
    \/ \E s \in ScrollingBoxes, v \in Leaves : ScrollingBoxAddView(s, v) /\ AttrUnchanged
    \/ \E bl \in BoxLayouts, v \in Boxes \cup Leaves, fill \in FillValues :
          /\ Len(children[bl]) < MaxChildren
          /\ BoxLayout_addView(bl, v, fill)
          /\ GeomUnchanged

SpecTree == InitTree /\ [][NextTree]_vars

\* the places a view holds in the child sequences
Places(v) ==
    UNION {{<<c, k>> : k \in {j \in 1..Len(ChildViews(c)) : ChildViews(c)[j] = v}} :
              c \in Containers}

\* C12: in every state reachable by addView calls, a view is in at most one child
\* sequence and at most once in it, and the container that holds it is the one its
\* parent back-reference designates.
C12_AtMostOneContainer ==
    \A v \in Views :
        /\ Cardinality(Places(v)) <= 1
        /\ \A place \in Places(v) : parent[v] = place[1]

(***************************************************************************)
(* XML attributes: SpecAttr.  A std::string is the sequence of its         *)
(* characters.                                                             *)
(***************************************************************************)

\* endsWith: data.find(suffix, data.size() - suffix.size()) != npos.  For a data
\* shorter than the suffix the position wraps around and find gives npos.
endsWith(data, suffix) ==
    IF Len(data) < Len(suffix) THEN FALSE
    ELSE SubSeq(data, Len(data) - Len(suffix) + 1, Len(data)) = suffix

\* startsWith: data.rfind(prefix, 0) == 0
startsWith(data, prefix) ==
    Len(data) >= Len(prefix) /\ SubSeq(data, 1, Len(prefix)) = prefix

\* std::string::substr(pos), substr(0, count)
substr(data, pos) == SubSeq(data, pos + 1, Len(data))
substr0(data, count) == SubSeq(data, 1, count)

DigitValue == ("0" :> 0) @@ ("1" :> 1) @@ ("2" :> 2) @@ ("3" :> 3) @@ ("4" :> 4) @@
              ("5" :> 5) @@ ("6" :> 6) @@ ("7" :> 7) @@ ("8" :> 8) @@ ("9" :> 9)
Digits == DOMAIN DigitValue
HexValue == DigitValue @@ ("a" :> 10) @@ ("b" :> 11) @@ ("c" :> 12) @@ ("d" :> 13) @@
            ("e" :> 14) @@ ("f" :> 15)
HexDigits == DOMAIN HexValue

\* the longest prefix of str made of characters of the class, and what follows it
RECURSIVE TakeWhile(_, _)
TakeWhile(str, class) ==
    IF str # <<>> /\ Head(str) \in class
    THEN LET more == TakeWhile(Tail(str), class)
         IN [taken |-> <<Head(str)>> \o more.taken, rest |-> more.rest]
    ELSE [taken |-> <<>>, rest |-> str]

\* the number a sequence of decimal digits writes
RECURSIVE DecimalValue(_)
DecimalValue(ds) ==
    IF ds = <<>> THEN 0
    ELSE 10 * DecimalValue(SubSeq(ds, 1, Len(ds) - 1)) + DigitValue[ds[Len(ds)]]

RECURSIVE Pow10(_)
Pow10(k) == IF k = 0 THEN 1 ELSE 10 * Pow10(k - 1)

\* the decimal exponents a float holds as a normal number (FLT_MAX is 3.4e38)
FloatMaxExponent == 38
FloatMinExponent == 0 - 38

\* std::stof: leading white space, a sign, then "nan", "inf" or digits with a
\* decimal point and an exponent; what follows the number is ignored.  No number:
\* invalid_argument.  A number no float holds (strtof sets ERANGE): out_of_range.
stof(str) ==
    LET s1       == TakeWhile(str, {" "}).rest
        negative == s1 # <<>> /\ Head(s1) = "-"
        s2       == IF s1 # <<>> /\ Head(s1) \in {"-", "+"} THEN Tail(s1) ELSE s1
        signed(n) == IF negative THEN 0 - n ELSE n
        int      == TakeWhile(s2, Digits)
        dot      == int.rest # <<>> /\ Head(int.rest) = "."
        fract    == IF dot THEN TakeWhile(Tail(int.rest), Digits)
                    ELSE [taken |-> <<>>, rest |-> int.rest]
        e1       == fract.rest
        eSign    == IF Len(e1) >= 2 /\ e1[2] \in {"-", "+"} THEN 1 ELSE 0
        eDigits  == IF e1 # <<>> /\ Head(e1) = "e"
                    THEN TakeWhile(substr(e1, 1 + eSign), Digits).taken
                    ELSE <<>>
        exponent == IF eDigits = <<>> THEN 0
                    ELSE IF eSign = 1 /\ e1[2] = "-" THEN 0 - DecimalValue(eDigits)
                    ELSE DecimalValue(eDigits)
        mantissa == DecimalValue(int.taken \o fract.taken)
        scale    == exponent - Len(fract.taken)
        \* the decimal exponent of the leading digit of the mantissa
        leading  == CHOOSE k \in 0..18 :
                       Pow10(k) <= mantissa /\ (k = 18 \/ mantissa < Pow10(k + 1))
    IN IF startsWith(s2, <<"n", "a", "n">>)
       THEN [status |-> "ok", value |-> NaN]
       ELSE IF startsWith(s2, <<"i", "n", "f">>)
       THEN [status |-> "ok", value |-> Frac(signed(1), 0)]
       ELSE IF int.taken = <<>> /\ fract.taken = <<>>
       THEN [status |-> "invalid_argument", value |-> NaN]
       ELSE IF mantissa = 0
       THEN [status |-> "ok", value |-> Zero]
       ELSE IF leading + scale > FloatMaxExponent \/ leading + scale < FloatMinExponent
       THEN [status |-> "out_of_range", value |-> NaN]
       ELSE [status |-> "ok",
             value |-> IF scale >= 0 THEN Frac(signed(mantissa * Pow10(scale)), 1)
                       ELSE Frac(signed(mantissa), Pow10(0 - scale))]

\* sscanf with n conversions %02hhx after the '#': a conversion takes one or two
\* hexadecimal digits; the result is the count of conversions made, and the bytes
RECURSIVE sscanfHex(_, _)
sscanfHex(str, n) ==
    IF n = 0 \/ str = <<>> \/ Head(str) \notin HexDigits THEN <<>>
    ELSE IF Len(str) >= 2 /\ str[2] \in HexDigits
         THEN <<16 * HexValue[str[1]] + HexValue[str[2]]>> \o sscanfHex(substr(str, 2), n - 1)
         ELSE <<HexValue[str[1]]>> \o sscanfHex(substr(str, 1), n - 1)


\* the values of attributes as strings
Str_auto  == <<"a", "u", "t", "o">>
Str_px    == <<"p", "x">>
Str_pct   == <<"%">>
Str_hash  == <<"#">>
Str_style == <<"@", "s", "t", "y", "l", "e", "/">>
Str_theme == <<"@", "t", "h", "e", "m", "e", "/">>
Str_visible == <<"v", "i", "s", "i", "b", "l", "e">>
Str_row   == <<"r", "o", "w">>

\* Application::getStyle() and Application::getTheme(): the metrics and colors
\* they hold; operator[] throws logic_error for any other name
StyleMetrics == (<<"m">> :> Frac(7, 1))
ThemeColors == (<<"c">> :> [r |-> 1, g |-> 2, b |-> 3, a |-> 255])

\* the values the handlers the constructors register for a string attribute take;
\* they throw for any other value.  The handler of any other name takes every
\* string.
StringHandlerValues ==
    [visibility |-> {Str_visible, <<"i", "n">> \o Str_visible, <<"g", "o", "n", "e">>},
     axis |-> {Str_row, <<"c", "o", "l", "u", "m", "n">>},
     direction |-> {<<"i", "n", "h", "e", "r", "i", "t">>,
                    <<"l", "e", "f", "t", "T", "o", "R", "i", "g", "h", "t">>,
                    <<"r", "i", "g", "h", "t", "T", "o", "L", "e", "f", "t">>},
     justifyContent |-> {<<"f", "l", "e", "x", "S", "t", "a", "r", "t">>,
                         <<"c", "e", "n", "t", "e", "r">>,
                         <<"f", "l", "e", "x", "E", "n", "d">>,
                         <<"s", "p", "a", "c", "e", "B", "e", "t", "w", "e", "e", "n">>,
                         <<"s", "p", "a", "c", "e", "A", "r", "o", "u", "n", "d">>,
                         <<"s", "p", "a", "c", "e", "E", "v", "e", "n", "l", "y">>}]
StringHandlerThrows(name, value) ==
    name \in DOMAIN StringHandlerValues /\ value \notin StringHandlerValues[name]

\* the results of View::applyXMLAttribute: a handler ran and it returned true, it
\* returned false, or an exception left it
Invoked(channel, name, arg) ==
    [returned |-> TRUE, thrown |-> "none",
     handlers |-> <<[channel |-> channel, name |-> name, arg |-> arg]>>]
Refused == [returned |-> FALSE, thrown |-> "none", handlers |-> <<>>]
Thrown(what) == [returned |-> FALSE, thrown |-> what, handlers |-> <<>>]

\* the float branches of View::applyXMLAttribute: std::stof, of which only
\* invalid_argument is caught, then the float handler
View_applyFloat(name, text) ==
    LET parsed == stof(text)
    IN IF parsed.status = "invalid_argument" THEN Refused
       ELSE IF parsed.status = "out_of_range" THEN Thrown("std::out_of_range")
       ELSE IF name \in floatAttributes THEN Invoked("float", name, parsed.value)
       ELSE Refused

\* the percentage branch
View_applyPercentage(name, text) ==
    LET parsed == stof(text)
        floatValue == parsed.value
    IN IF parsed.status = "invalid_argument" THEN Refused
       ELSE IF parsed.status = "out_of_range" THEN Thrown("std::out_of_range")
       ELSE IF FracLess(floatValue, 0) \/ FracGreater(floatValue, 100) THEN Refused
       ELSE IF name \in percentageAttributes THEN Invoked("percentage", name, floatValue)
       ELSE Refused

\* the color branch: #RRGGBB or #RRGGBBAA
View_applyColor(name, value) ==
    LET n == IF Len(value) = 7 THEN 3 ELSE 4
        bytes == sscanfHex(Tail(value), n)
    IN IF Len(value) \notin {7, 9} THEN Refused
       ELSE IF Len(bytes) # n THEN Refused
       ELSE IF name \in colorAttributes
       THEN Invoked("color", name,
                    [r |-> bytes[1], g |-> bytes[2], b |-> bytes[3],
                     a |-> IF n = 4 THEN bytes[4] ELSE 255])
       ELSE Refused

\* View::applyXMLAttribute
View_applyXMLAttribute(name, value) ==
    \* String -> string
    IF name \in stringAttributes
    THEN IF StringHandlerThrows(name, value)
         THEN [returned |-> FALSE, thrown |-> "illegal value",
               handlers |-> <<[channel |-> "string", name |-> name,
                               arg |-> [text |-> value]]>>]
         ELSE Invoked("string", name, [text |-> value])
    \* Auto -> auto
    ELSE IF value = Str_auto
    THEN (IF name \in autoAttributes THEN Invoked("auto", name, [auto |-> TRUE])
          ELSE Refused)
    \* Ends with px -> float
    ELSE IF endsWith(value, Str_px)
    THEN View_applyFloat(name, substr0(value, Len(value) - 2))
    \* Ends with % -> percentage
    ELSE IF endsWith(value, Str_pct)
    THEN View_applyPercentage(name, substr0(value, Len(value) - 1))
    \* Starts with @style -> float
    ELSE IF startsWith(value, Str_style)
    THEN (IF substr(value, 7) \notin DOMAIN StyleMetrics THEN Thrown("unknown style metric")
          ELSE IF name \in floatAttributes
          THEN Invoked("float", name, StyleMetrics[substr(value, 7)])
          ELSE Refused)
    \* Starts with with # -> color
    ELSE IF startsWith(value, Str_hash)
    THEN View_applyColor(name, value)
    \* Starts with @theme -> color
    ELSE IF startsWith(value, Str_theme)
    THEN (IF substr(value, 7) \notin DOMAIN ThemeColors THEN Thrown("unknown theme color")
          ELSE IF name \in colorAttributes
          THEN Invoked("color", name, ThemeColors[substr(value, 7)])
          ELSE Refused)
    \* Valid float -> float, otherwise unknown attribute
    ELSE View_applyFloat(name, value)

\* View::printXMLAttributeErrorMessage: the error it throws
View_printXMLAttributeErrorMessage(name) ==
    IF name \in knownAttributes THEN "illegal value" ELSE "unknown attribute"

\* one turn of the loop of View::applyXMLAttributes: what the loop yields when
\* the k-th attribute gave `applied` and the attributes after it give `rest`
View_applyXMLAttributesStep(applied, name, k, rest) ==
    IF applied.thrown # "none"
    THEN [handlers |-> applied.handlers, error |-> applied.thrown, failed |-> k]
    ELSE IF ~applied.returned
    THEN [handlers |-> <<>>, failed |-> k,
          error |-> View_printXMLAttributeErrorMessage(name)]
    ELSE [handlers |-> applied.handlers \o rest.handlers,
          error |-> rest.error, failed |-> rest.failed]

\* View::applyXMLAttributes from the k-th attribute of the element on: the handlers
\* invoked in order, the error that ended the loop and the attribute it ended at
RECURSIVE View_applyXMLAttributesFrom(_, _)
View_applyXMLAttributesFrom(element, k) ==
    IF k > Len(element) THEN [handlers |-> <<>>, error |-> "none", failed |-> 0]
    ELSE View_applyXMLAttributesStep(
             View_applyXMLAttribute(element[k].name, element[k].value),
             element[k].name, k, View_applyXMLAttributesFrom(element, k + 1))

View_applyXMLAttributes(element) == View_applyXMLAttributesFrom(element, 1)


\* View::registerAutoXMLAttribute and the four others: the fields they change
View_registerAttributes(auto, float, percentage, string, color) ==
    /\ autoAttributes' = autoAttributes \cup auto
    /\ floatAttributes' = floatAttributes \cup float
    /\ percentageAttributes' = percentageAttributes \cup percentage
    /\ stringAttributes' = stringAttributes \cup string
    /\ colorAttributes' = colorAttributes \cup color
    /\ knownAttributes' = knownAttributes \cup auto \cup float \cup percentage
                                          \cup string \cup color

Margins == {"marginTop", "marginRight", "marginBottom", "marginLeft"}
Borders == {"borderTop", "borderRight", "borderBottom", "borderLeft"}
Paddings == {"paddingTop", "paddingRight", "paddingBottom", "paddingLeft"}

\* the attribute maps, the tree and the geometry aside, nothing changes
OnlyAttributes ==
    /\ call' = NoCall
    /\ UNCHANGED <<treeVars, geomVars, styleVars, scrollVars, lifeVars>>

\* the constructor of View: View::registerCommonAttributes
RegisterCommonAttributes ==
    /\ call = NoCall
    /\ knownAttributes = {}
    /\ View_registerAttributes({"width", "height"} \cup Margins,
                               {"width", "height", "grow", "shrink"} \cup Margins \cup Borders,
                               {"width", "height"},
                               {"visibility"},
                               {"borderColor"})
    /\ OnlyAttributes

\* the constructor of Box, after the one of View
BoxRegisterAttributes ==
    /\ call = NoCall
    /\ knownAttributes # {}
    /\ "axis" \notin knownAttributes
    /\ View_registerAttributes({}, Paddings, {},
                               {"axis", "direction", "justifyContent"}, {})
    /\ OnlyAttributes

\* the constructor of a view of the application registers an attribute of its own
RegisterAutoXMLAttribute(name) ==
    /\ call = NoCall /\ knownAttributes # {} /\ name \notin autoAttributes
    /\ View_registerAttributes({name}, {}, {}, {}, {})
    /\ OnlyAttributes

RegisterFloatXMLAttribute(name) ==
    /\ call = NoCall /\ knownAttributes # {} /\ name \notin floatAttributes
    /\ View_registerAttributes({}, {name}, {}, {}, {})
    /\ OnlyAttributes

RegisterPercentageXMLAttribute(name) ==
    /\ call = NoCall /\ knownAttributes # {} /\ name \notin percentageAttributes
    /\ View_registerAttributes({}, {}, {name}, {}, {})
    /\ OnlyAttributes

RegisterStringXMLAttribute(name) ==
    /\ call = NoCall /\ knownAttributes # {} /\ name \notin stringAttributes
    /\ View_registerAttributes({}, {}, {}, {name}, {})
    /\ OnlyAttributes

RegisterColorXMLAttribute(name) ==
    /\ call = NoCall /\ knownAttributes # {} /\ name \notin colorAttributes
    /\ View_registerAttributes({}, {}, {}, {}, {name})
    /\ OnlyAttributes

\* View::applyXMLAttributes on the constructed view, once (createFromXMLElement)
ApplyXMLAttributes(element) ==
    /\ call = NoCall
    /\ knownAttributes # {}
    /\ call' = [op |-> "View::applyXMLAttributes", element |-> element,
                result |-> View_applyXMLAttributes(element)]
    /\ UNCHANGED <<treeVars, geomVars, styleVars, scrollVars, attrVars, lifeVars>>

\* the names and the values of the attributes applied
CustomNames == {"progress"}
AppliedNames == {"width", "grow", "borderColor", "visibility", "axis", "bogus"} \cup CustomNames
PercentTexts ==
    { <<"5", "0", "%">>, <<"0", "%">>, <<"1", "0", "0", "%">>, <<"2", ".", "5", "%">>,
      <<"1", "0", "1", "%">>, <<"-", "5", "%">> }
AppliedValues ==
    PercentTexts \cup
    { Str_auto, Str_visible, Str_row, <<>>,
      <<"1", "2", "p", "x">>, Str_px, <<"1", "2">>, <<"1", "2", "a">>, <<"a">>,
      <<"1", "e", "3", "9", "p", "x">>, <<"1", "e", "3", "9">>, <<"1", "e", "3", "9", "%">>,
      <<"a", "%">>, <<"n", "a", "n", "%">>,
      <<"#", "f", "f", "0", "0", "0", "0">>, <<"#", "f", "f", "0", "0">>,
      <<"#", "g", "g", "0", "0", "0", "0">>,
      <<"#", "f", "f", "0", "0", "0", "0", "8", "0">>,
      Str_style \o <<"m">>, Str_style \o <<"x">>,
      Str_theme \o <<"c">>, Str_theme \o <<"x">> }
Attribute(name, value) == [name |-> name, value |-> value]
\* the attributes that follow the first one of an element
FollowingAttributes ==
    { Attribute("height", <<"1", "0", "p", "x">>), Attribute("height", <<"x">>) }
MaxAttributes == 2
RECURSIVE FollowingOf(_)
FollowingOf(n) ==
    IF n = 0 THEN {<<>>}
    ELSE {<<>>} \cup {<<a>> \o t : a \in FollowingAttributes, t \in FollowingOf(n - 1)}
Elements ==
    {<<>>} \cup {<<Attribute(n, v)>> \o t :
                    n \in AppliedNames, v \in AppliedValues, t \in FollowingOf(MaxAttributes - 1)}

InitAttr ==
    /\ TreeConstructed
    /\ GeomConstructed
    /\ StyleConstructed
    /\ ScrollConstructed
    /\ NoAttributes
    /\ LifeConstructed
    /\ axis = [b \in BoxLikes |-> "COLUMN"]
    /\ orientation = [bl \in BoxLayouts |-> "VERTICAL"]
    /\ focusable = [v \in Leaves |-> TRUE]
    /\ call = NoCall

NextAttr ==
    \/ RegisterCommonAttributes
    \/ BoxRegisterAttributes
    \/ \E name \in CustomNames : RegisterAutoXMLAttribute(name)
    \/ \E name \in CustomNames : RegisterFloatXMLAttribute(name)
    \/ \E name \in CustomNames : RegisterPercentageXMLAttribute(name)
    \/ \E name \in CustomNames : RegisterStringXMLAttribute(name)
    \/ \E name \in CustomNames : RegisterColorXMLAttribute(name)
    \/ \E element \in Elements : ApplyXMLAttributes(element)

SpecAttr == InitAttr /\ [][NextAttr]_vars

\* the number a percentage text writes before its %
PercentOf(text) ==
    CASE text = <<"5", "0", "%">> -> Frac(50, 1)
      [] text = <<"0", "%">> -> Frac(0, 1)
      [] text = <<"1", "0", "0", "%">> -> Frac(100, 1)
      [] text = <<"2", ".", "5", "%">> -> Frac(5, 2)
      [] text = <<"1", "0", "1", "%">> -> Frac(101, 1)
      [] text = <<"-", "5", "%">> -> Frac(0 - 5, 1)

\* C8: a value "N%" with 0 <= N <= 100 on a name with a percentage handler invokes
\* that handler with N/100, a value between 0.0 and 1.0 ("50%" delivers 0.5); a
\* value with N outside [0, 100] invokes no handler.
C8_PercentageHandlerGetsFraction ==
    (/\ call.op = "View::applyXMLAttributes"
     /\ call.element # <<>>
     /\ call.element[1].value \in PercentTexts
     /\ call.element[1].name \in percentageAttributes \ stringAttributes)
    => LET N == PercentOf(call.element[1].value)
           handlers == call.result.handlers
       IN IF N.num >= 0 /\ N.num <= 100 * N.den
          THEN /\ handlers # <<>>
               /\ handlers[1].channel = "percentage"
               /\ handlers[1].arg = Frac(N.num, N.den * 100)
               /\ handlers[1].arg.num <= handlers[1].arg.den
          ELSE handlers = <<>>

\* the channel the grammar of a value chooses
GrammarChannel(value) ==
    IF value = Str_auto THEN "auto"
    ELSE IF endsWith(value, Str_px) THEN "float"
    ELSE IF endsWith(value, Str_pct) THEN "percentage"
    ELSE IF startsWith(value, Str_hash) \/ startsWith(value, Str_theme) THEN "color"
    ELSE "float"

\* the names registered in the channel
Registered(channel) ==
    CASE channel = "auto" -> autoAttributes
      [] channel = "float" -> floatAttributes
      [] channel = "percentage" -> percentageAttributes
      [] channel = "string" -> stringAttributes
      [] channel = "color" -> colorAttributes

\* C9: for every attribute applyXMLAttributes applies, one handler registered for
\* its name is invoked, in the channel the grammar of the value chooses, or an
\* error is raised; the error is "illegal value" exactly when the name is
\* registered in a channel and "unknown attribute" otherwise; no attribute after
\* the failing one is applied.
C9_OneHandlerOrError ==
    call.op = "View::applyXMLAttributes" =>
        LET element == call.element
            result == call.result
            applied == IF result.error = "none" THEN Len(element) ELSE result.failed - 1
        IN /\ Len(result.handlers) \in {applied, applied + 1}
           /\ Len(result.handlers) = applied + 1 => result.error # "none"
           /\ \A k \in 1..Len(result.handlers) :
                 /\ result.handlers[k].name = element[k].name
                 /\ element[k].name \in Registered(result.handlers[k].channel)
                 /\ result.handlers[k].channel \in {"string", GrammarChannel(element[k].value)}
           /\ result.error # "none" =>
                 /\ result.error \in {"illegal value", "unknown attribute"}
                 /\ result.error = "illegal value" <=>
                       \E channel \in {"auto", "float", "percentage", "string", "color"} :
                          element[result.failed].name \in Registered(channel)


(***************************************************************************)
(* The layout setters and View::invalidate: SpecLayout.                    *)
(***************************************************************************)

\* an invalidate that also computes the layout of every view it passes through
RECURSIVE View_invalidate_eachLevel(_)
View_invalidate_eachLevel(v) ==
    IF parent[v] # NoView THEN <<v>> \o View_invalidate_eachLevel(parent[v])
    ELSE <<v>>

\* View::hasParent
View_hasParent_never(v) == FALSE

View_hasParent(v) == parent[v] # NoView

\* View::invalidate: the nodes YGNodeCalculateLayout is called on, in order
RECURSIVE View_invalidate(_)
View_invalidate(v) ==
    IF View_hasParent(v) THEN View_invalidate(parent[v])
    ELSE <<v>>

\* YGNodeCalculateLayout on the nodes `on`, for a tree where every box holds at
\* most one child: a child sits at the padding of its box plus its own margin, a
\* root at the origin; a size left undefined computes as 0.
YGChainLayout(old, on, w, h, mt, ml, pad) ==
    [v \in Views |->
        IF \E r \in Range(on) : InSubtree(r, v)
        THEN [left   |-> IF parent[v] = NoView \/ v \in Range(on) THEN 0
                         ELSE pad[parent[v]].left + ntz(ml[v]),
              top    |-> IF parent[v] = NoView \/ v \in Range(on) THEN 0
                         ELSE pad[parent[v]].top + ntz(mt[v]),
              width  |-> ntz(w[v]),
              height |-> ntz(h[v])]
        ELSE old[v]]

\* the end of a setter: this->invalidate(), which leaves the new layout
Invalidated(op, self, args) ==
    /\ call' = [op |-> op, self |-> self, args |-> args, layouts |-> View_invalidate(self)]
    /\ ygLayout' = YGChainLayout(ygLayout, View_invalidate(self), ygWidth', ygHeight',
                                 ygMarginTop', ygMarginLeft', ygPadding')
    /\ UNCHANGED <<treeVars, culled, collapseState, ygPositionTop, scrollVars, attrVars,
                   lifeVars>>

\* View::invalidate called on a view, the styles as they are
InvalidateCalled(v) ==
    /\ UNCHANGED styleVars
    /\ UNCHANGED ygHeight
    /\ Invalidated("View::invalidate", v, <<>>)

\* the margins of a view after YGNodeStyleSetMargin / YGNodeStyleSetMarginAuto on
\* its edges; AUTO is NAN, so `value == View::AUTO` is false for every value and
\* the value itself is what the node gets
Margins_set(top, right, bottom, left) ==
    /\ ygMarginTop' = top
    /\ ygMarginRight' = right
    /\ ygMarginBottom' = bottom
    /\ ygMarginLeft' = left
    /\ UNCHANGED <<ygWidth, ygHeight, ygPadding>>

\* View::setMargins
View_setMargins(v, top, right, bottom, left) ==
    /\ Margins_set([ygMarginTop EXCEPT ![v] = top], [ygMarginRight EXCEPT ![v] = right],
                   [ygMarginBottom EXCEPT ![v] = bottom], [ygMarginLeft EXCEPT ![v] = left])
    /\ Invalidated("View::setMargins", v, <<top, right, bottom, left>>)

\* View::setMarginTop, setMarginRight, setMarginBottom, setMarginLeft
View_setMarginTop(v, top) ==
    /\ Margins_set([ygMarginTop EXCEPT ![v] = top], ygMarginRight, ygMarginBottom,
                   ygMarginLeft)
    /\ Invalidated("View::setMarginTop", v, <<top>>)

View_setMarginRight(v, right) ==
    /\ Margins_set(ygMarginTop, [ygMarginRight EXCEPT ![v] = right], ygMarginBottom,
                   ygMarginLeft)
    /\ Invalidated("View::setMarginRight", v, <<right>>)

View_setMarginBottom(v, bottom) ==
    /\ Margins_set(ygMarginTop, ygMarginRight, [ygMarginBottom EXCEPT ![v] = bottom],
                   ygMarginLeft)
    /\ Invalidated("View::setMarginBottom", v, <<bottom>>)

View_setMarginLeft(v, left) ==
    /\ Margins_set(ygMarginTop, ygMarginRight, ygMarginBottom,
                   [ygMarginLeft EXCEPT ![v] = left])
    /\ Invalidated("View::setMarginLeft", v, <<left>>)

\* the declared size of a view after YGNodeStyleSetWidth / YGNodeStyleSetHeight
Dimensions_set(width, height) ==
    /\ ygWidth' = width
    /\ ygHeight' = height
    /\ UNCHANGED <<ygMarginTop, ygMarginRight, ygMarginBottom, ygMarginLeft, ygPadding>>

\* View::setDimensions
View_setDimensions(v, width, height) ==
    /\ Dimensions_set([ygWidth EXCEPT ![v] = width], [ygHeight EXCEPT ![v] = height])
    /\ Invalidated("View::setDimensions", v, <<width, height>>)

\* View::setWidth, View::setHeight
View_setWidth(v, width) ==
    /\ Dimensions_set([ygWidth EXCEPT ![v] = width], ygHeight)
    /\ Invalidated("View::setWidth", v, <<width>>)

View_setHeight(v, height) ==
    /\ Dimensions_set(ygWidth, [ygHeight EXCEPT ![v] = height])
    /\ Invalidated("View::setHeight", v, <<height>>)

\* the padding of a box after YGNodeStyleSetPadding on its edges
Padding_set(b, padding) ==
    /\ ygPadding' = [ygPadding EXCEPT ![b] = padding]
    /\ UNCHANGED <<ygWidth, ygHeight, ygMarginTop, ygMarginRight, ygMarginBottom,
                   ygMarginLeft>>

\* Box::setPadding
Box_setPadding(b, top, right, bottom, left) ==
    /\ Padding_set(b, [top |-> top, right |-> right, bottom |-> bottom, left |-> left])
    /\ Invalidated("Box::setPadding", b, <<top, right, bottom, left>>)

\* Box::setPaddingTop, setPaddingRight, setPaddingBottom, setPaddingLeft
Box_setPaddingTop(b, top) ==
    /\ Padding_set(b, [ygPadding[b] EXCEPT !.top = top])
    /\ Invalidated("Box::setPaddingTop", b, <<top>>)

Box_setPaddingRight(b, right) ==
    /\ Padding_set(b, [ygPadding[b] EXCEPT !.right = right])
    /\ Invalidated("Box::setPaddingRight", b, <<right>>)

Box_setPaddingBottom(b, bottom) ==
    /\ Padding_set(b, [ygPadding[b] EXCEPT !.bottom = bottom])
    /\ Invalidated("Box::setPaddingBottom", b, <<bottom>>)

Box_setPaddingLeft(b, left) ==
    /\ Padding_set(b, [ygPadding[b] EXCEPT !.left = left])
    /\ Invalidated("Box::setPaddingLeft", b, <<left>>)

\* the views of SpecLayout: a leaf, the box that holds it and the box around that
\* one, as Box::addView leaves them when the leaf is `depth` boxes deep
StyledLeaf == 11
InnerBox == 1
OuterBox == 2
TreeDepths == {0, 1, 2}
ChainChildren(depth) ==
    [c \in Containers |->
        IF c \in ScrollingBoxes THEN <<flatBox(c)>>
        ELSE IF c = InnerBox /\ depth >= 1 THEN <<StyledLeaf>>
        ELSE IF c = OuterBox /\ depth >= 2 THEN <<InnerBox>>
        ELSE <<>>]
ChainParent(depth) ==
    [v \in Views |->
        IF v \in FlatBoxes THEN CHOOSE s \in ScrollingBoxes : flatBox(s) = v
        ELSE IF v = StyledLeaf /\ depth >= 1 THEN InnerBox
        ELSE IF v = InnerBox /\ depth >= 2 THEN OuterBox
        ELSE NoView]

\* the margins and paddings, and the sizes, the setters are called with
LayoutValues == {0, 1}
DimensionValues == {AUTO, 2}

InitLayout ==
    /\ \E depth \in TreeDepths :
          /\ children = ChainChildren(depth)
          /\ parent = ChainParent(depth)
          /\ parentUserdata = [v \in Views |-> IF ChainParent(depth)[v] # NoView
                                               THEN 0 ELSE Null]
    /\ blDefaultFocusedIndex = [bl \in BoxLayouts |-> 0]
    /\ ygChildren = [b \in BoxLikes |-> children[b]]
    /\ GeomConstructed
    /\ StyleConstructed
    /\ ScrollConstructed
    /\ NoAttributes
    /\ LifeConstructed
    /\ axis = [b \in BoxLikes |-> "COLUMN"]
    /\ orientation = [bl \in BoxLayouts |-> "VERTICAL"]
    /\ focusable = [v \in Leaves |-> TRUE]
    /\ call = NoCall

NextLayout ==
    \/ \E top \in LayoutValues, right \in LayoutValues, bottom \in LayoutValues,
          left \in LayoutValues : View_setMargins(StyledLeaf, top, right, bottom, left)
    \/ \E top \in LayoutValues : View_setMarginTop(StyledLeaf, top)
    \/ \E right \in LayoutValues : View_setMarginRight(StyledLeaf, right)
    \/ \E bottom \in LayoutValues : View_setMarginBottom(StyledLeaf, bottom)
    \/ \E left \in LayoutValues : View_setMarginLeft(StyledLeaf, left)
    \/ \E width \in DimensionValues, height \in DimensionValues :
          View_setDimensions(StyledLeaf, width, height)
    \/ \E width \in DimensionValues : View_setWidth(StyledLeaf, width)
    \/ \E height \in DimensionValues : View_setHeight(StyledLeaf, height)
    \/ \E top \in LayoutValues, right \in LayoutValues, bottom \in LayoutValues,
          left \in LayoutValues : Box_setPadding(InnerBox, top, right, bottom, left)
    \/ \E top \in LayoutValues : Box_setPaddingTop(InnerBox, top)
    \/ \E right \in LayoutValues : Box_setPaddingRight(InnerBox, right)
    \/ \E bottom \in LayoutValues : Box_setPaddingBottom(InnerBox, bottom)
    \/ \E left \in LayoutValues : Box_setPaddingLeft(InnerBox, left)

    \/ \E v \in {StyledLeaf, InnerBox, OuterBox} : InvalidateCalled(v)

SpecLayout == InitLayout /\ [][NextLayout]_vars

CombinedSetters == {"View::setMargins", "View::setDimensions", "Box::setPadding"}
IndividualSetters ==
    {"View::setMarginTop", "View::setMarginRight", "View::setMarginBottom",
     "View::setMarginLeft", "View::setWidth", "View::setHeight", "Box::setPaddingTop",
     "Box::setPaddingRight", "Box::setPaddingBottom", "Box::setPaddingLeft"}

\* C10: a call of View::setMargins, View::setDimensions or Box::setPadding sets all
\* of its values and computes the layout exactly once, on the root of the tree; a
\* call of an individual setter computes it once as well, so that setting four
\* margins or paddings one by one computes it four times.
C10_OneLayoutPerSetterCall ==
    call.op \in CombinedSetters \cup IndividualSetters =>
        /\ Len(call.layouts) = 1
        /\ call.layouts = <<RootIn(parent, call.self)>>
        /\ call.op = "View::setMargins" =>
              call.args = <<ygMarginTop[call.self], ygMarginRight[call.self],
                            ygMarginBottom[call.self], ygMarginLeft[call.self]>>
        /\ call.op = "View::setDimensions" =>
              call.args = <<ygWidth[call.self], ygHeight[call.self]>>
        /\ call.op = "Box::setPadding" =>
              call.args = <<ygPadding[call.self].top, ygPadding[call.self].right,
                            ygPadding[call.self].bottom, ygPadding[call.self].left>>

\* setMargins on a leaf two boxes deep changed its four margins with one layout
C10_Witness ==
    /\ call.op = "View::setMargins"
    /\ call.args = <<1, 1, 1, 1>>
    /\ parent[call.self] # NoView /\ parent[parent[call.self]] # NoView
    /\ call.layouts = <<OuterBox>>
    /\ ygLayout[call.self].top = 1 /\ ygLayout[call.self].left = 1

\* ------------------------------------------------ interpolations: SpecAnim
\*
\* The animation scheduler (borealis/animations.hpp) is outside src/library; it is
\* modelled at its interface: an entry is pushed with a subject, a tag and a
\* target, the start value is the subject's current value, and
\* menu_animation_kill_by_tag removes every entry that carries the tag.

\* (uintptr_t) &view->field, and (uintptr_t) of a float value: its integer part.
\* The address of a field is never a small integer.
AddressTag(v, field) == [kind |-> "address", view |-> v, field |-> field, value |-> 0]
ValueTag(f) == [kind |-> "value", view |-> NoView, field |-> "none",
                value |-> IF f.den = 0 THEN 0 ELSE f.num \div f.den]

One == Frac(1, 1)
Half == Frac(1, 2)

menu_animation_kill_by_tag(list, tag) == SelectSeq(list, LAMBDA entry : entry.tag # tag)

menu_animation_push(list, v, field, tag, initial, target) ==
    Append(list, [view |-> v, field |-> field, tag |-> tag, initial |-> initial,
                  target |-> target])

\* the interpolations in flight are bounded: no operation pushes onto a full list
MaxAnimations == 2
Pushed == Len(animations') <= MaxAnimations

\* View::collapse and View::expand: the list and the field after the call
View_collapseTo(v, animated, target) ==
    LET tag == AddressTag(v, "collapseState")
        killed == menu_animation_kill_by_tag(animations, tag)
    IN /\ animations' = IF animated
                        THEN menu_animation_push(killed, v, "collapseState", tag,
                                                 Frac(collapseState[v], CollapseScale), target)
                        ELSE killed
       /\ collapseState' = IF animated THEN collapseState
                           ELSE [collapseState EXCEPT ![v] =
                                    (target.num * CollapseScale) \div target.den]

View_collapse(v, animated) ==
    /\ v \notin destroyed
    /\ View_collapseTo(v, animated, Zero)
    /\ Pushed
    /\ call' = [op |-> "View::collapse", self |-> v, animated |-> animated]
    /\ UNCHANGED <<treeVars, ygHeight, ygLayout, culled, styleVars, scrollVars, attrVars,
                   alpha, highlightAlpha, hidden, fadeIn, focused, destroyed,
                   rememberFocus, originalDefaultFocus, childFocused>>

View_expand(v, animated) ==
    /\ v \notin destroyed
    /\ View_collapseTo(v, animated, One)
    /\ Pushed
    /\ call' = [op |-> "View::expand", self |-> v, animated |-> animated]
    /\ UNCHANGED <<treeVars, ygHeight, ygLayout, culled, styleVars, scrollVars, attrVars,
                   alpha, highlightAlpha, hidden, fadeIn, focused, destroyed,
                   rememberFocus, originalDefaultFocus, childFocused>>

\* View::show(cb, animate, duration) and View::hide(cb, animated, duration)
View_show(v, animate) ==
    /\ v \notin destroyed
    /\ hidden' = [hidden EXCEPT ![v] = FALSE]
    /\ LET tag == AddressTag(v, "alpha")
           killed == menu_animation_kill_by_tag(animations, tag)
       IN IF animate
          THEN /\ alpha' = [alpha EXCEPT ![v] = Zero]
               /\ animations' = menu_animation_push(killed, v, "alpha", tag, Zero, One)
               /\ fadeIn' = [fadeIn EXCEPT ![v] = TRUE]
          ELSE /\ alpha' = [alpha EXCEPT ![v] = One]
               /\ animations' = killed
               /\ fadeIn' = [fadeIn EXCEPT ![v] = FALSE]
    /\ Pushed
    /\ call' = [op |-> "View::show", self |-> v, animated |-> animate]
    /\ UNCHANGED <<treeVars, geomVars, styleVars, scrollVars, attrVars, highlightAlpha,
                   focused, destroyed, rememberFocus, originalDefaultFocus, childFocused>>

View_hide(v, animated) ==
    /\ v \notin destroyed
    /\ hidden' = [hidden EXCEPT ![v] = TRUE]
    /\ fadeIn' = [fadeIn EXCEPT ![v] = FALSE]
    /\ LET tag == AddressTag(v, "alpha")
           killed == menu_animation_kill_by_tag(animations, tag)
       IN IF animated
          THEN /\ alpha' = [alpha EXCEPT ![v] = One]
               /\ animations' = menu_animation_push(killed, v, "alpha", tag, One, Zero)
          ELSE /\ alpha' = [alpha EXCEPT ![v] = Zero]
               /\ animations' = killed
    /\ Pushed
    /\ call' = [op |-> "View::hide", self |-> v, animated |-> animated]
    /\ UNCHANGED <<treeVars, geomVars, styleVars, scrollVars, attrVars, highlightAlpha,
                   focused, destroyed, rememberFocus, originalDefaultFocus, childFocused>>

\* ScrollingBox::startScrolling: the list of interpolations after the call
ScrollingBox_startScrolling_animations(list, s, animated, newScroll) ==
    IF FracEq(newScroll, scrollY[s]) THEN list
    ELSE LET tag == AddressTag(s, "scrollY")
             killed == menu_animation_kill_by_tag(list, tag)
         IN IF animated
            THEN menu_animation_push(killed, s, "scrollY", tag, scrollY[s], newScroll)
            ELSE killed

\* ScrollingBox::startScrolling called on a scrolling box
StartScrolling(s, animated, newScroll) ==
    /\ s \notin destroyed
    /\ ScrollingBox_startScrolling(s, animated, newScroll)
    /\ animations' = ScrollingBox_startScrolling_animations(animations, s, animated,
                                                            newScroll)
    /\ Pushed
    /\ call' = [op |-> "ScrollingBox::startScrolling", self |-> s, animated |-> animated]
    /\ UNCHANGED <<treeVars, ygHeight, culled, collapseState, styleVars, middleY, bottomY,
                   updateScrollingOnNextFrame, Application_currentFocus, attrVars,
                   alpha, highlightAlpha, hidden, fadeIn, focused, destroyed,
                   rememberFocus, originalDefaultFocus, childFocused>>
    /\ InvalidateColumn

\* View::onFocusGained and View::onFocusLost: the interpolation they push on
\* highlightAlpha.  The tag is the value of the field, and nothing is killed.
View_onFocusGained_animations(list, v) ==
    menu_animation_push(list, v, "highlightAlpha", ValueTag(highlightAlpha[v]),
                        highlightAlpha[v], One)

View_onFocusLost_animations(list, v) ==
    menu_animation_push(list, v, "highlightAlpha", ValueTag(highlightAlpha[v]),
                        highlightAlpha[v], Zero)

\* The onChildFocusGained / onChildFocusLost calls a focus change makes, bottom-up:
\* View::onChildFocusGained passes the call to the parent with itself as the direct
\* child.  A receiver in stopped does not return from its own handler.
RECURSIVE View_onChildFocus_keepsChild(_, _, _, _)
View_onChildFocus_keepsChild(receiver, directChild, focusedView, stopped) ==
    <<[to |-> receiver, directChild |-> directChild, focusedView |-> focusedView]>>
    \o IF receiver \in stopped \/ parent[receiver] = NoView THEN <<>>
       ELSE View_onChildFocus_keepsChild(parent[receiver], directChild, focusedView,
                                         stopped)

RECURSIVE View_onChildFocus(_, _, _, _)
View_onChildFocus(receiver, directChild, focusedView, stopped) ==
    <<[to |-> receiver, directChild |-> directChild, focusedView |-> focusedView]>>
    \o IF receiver \in stopped \/ parent[receiver] = NoView THEN <<>>
       ELSE View_onChildFocus(parent[receiver], receiver, focusedView, stopped)

\* the calls of View::onFocusGained / View::onFocusLost on the view v
View_onFocus(v, stopped) ==
    IF v = NoView \/ parent[v] = NoView THEN <<>>
    ELSE View_onChildFocus(parent[v], v, v, stopped)

\* the scrolling boxes above a view
ScrollingAbove(v) == {s \in ScrollingBoxes : v # NoView /\ v # s /\ InSubtree(s, v)}

\* Application::giveFocus (outside src/library): the old focus loses it, the
\* current focus changes, the new focus gains it.  ScrollingBox::onChildFocusGained
\* runs updateScrolling(true) with the new focus as the current one, so that it
\* reads no null focus whatever the outcome of such a read would be.
Application_giveFocus(view) ==
    /\ view \notin destroyed
    /\ Application_currentFocus # view
    /\ Application_currentFocus' = view
    /\ LET old == Application_currentFocus
           scrolling == ScrollingAbove(view)
           update == [s \in scrolling |-> UpdateScrolling(s, TRUE, "crash", view)]
           stopped == {s \in scrolling : update[s].crashed}
           lost == IF old = NoView THEN animations
                   ELSE View_onFocusLost_animations(animations, old)
           gained == IF view = NoView THEN lost
                     ELSE View_onFocusGained_animations(lost, view)
       IN /\ focused' = [v \in Views |-> IF v = view THEN TRUE
                                         ELSE IF v = old THEN FALSE ELSE focused[v]]
          /\ IF scrolling = {}
             THEN /\ animations' = gained
                  /\ UNCHANGED <<scrollY, scrollAnim>>
             ELSE LET s == CHOOSE box \in scrolling : TRUE
                      u == update[s]
                  IN /\ ApplyUpdate(s, u)
                     /\ animations' =
                           IF ~u.crashed /\ u.returned
                           THEN ScrollingBox_startScrolling_animations(
                                    gained, s, u.animated, u.newScroll)
                           ELSE gained
          /\ call' = [op |-> "Application::giveFocus", self |-> view, old |-> old,
                      lost |-> View_onFocus(old, {}),
                      gained |-> View_onFocus(view, stopped)]
    /\ Pushed
    /\ UNCHANGED <<treeVars, geomVars, styleVars, middleY, bottomY,
                   updateScrollingOnNextFrame, attrVars, alpha, highlightAlpha, hidden,
                   fadeIn, destroyed, rememberFocus, originalDefaultFocus, childFocused>>

\* A frame of the interpolation i on a field of a view (menu_animation_update): it
\* writes the eased value; the last frame writes the target, runs the completion
\* callback and drops the entry.  The tick callback of collapse and expand
\* invalidates the parent.  The frames before the last are modelled for
\* highlightAlpha, whose value is read as a tag.
RemoveAt(list, i) == SubSeq(list, 1, i - 1) \o SubSeq(list, i + 1, Len(list))

AnimationTick(i, last) ==
    /\ i \in DOMAIN animations
    /\ animations[i].field # "scrollY"
    /\ animations[i].view \notin destroyed
    /\ last \/ animations[i].field = "highlightAlpha"
    /\ LET entry == animations[i]
           v == entry.view
           value == IF last \/ entry.initial = entry.target THEN entry.target ELSE Half
       IN /\ alpha' = IF entry.field = "alpha" THEN [alpha EXCEPT ![v] = value]
                      ELSE alpha
          /\ highlightAlpha' = IF entry.field = "highlightAlpha"
                               THEN [highlightAlpha EXCEPT ![v] = value]
                               ELSE highlightAlpha
          /\ collapseState' = IF entry.field = "collapseState"
                              THEN [collapseState EXCEPT ![v] =
                                       (value.num * CollapseScale) \div value.den]
                              ELSE collapseState
          /\ fadeIn' = IF last /\ entry.field = "alpha" /\ entry.target = One
                       THEN [fadeIn EXCEPT ![v] = FALSE]
                       ELSE fadeIn
          /\ animations' = IF last THEN RemoveAt(animations, i) ELSE animations
          /\ call' = [op |-> "menu_animation_update", self |-> v, field |-> entry.field,
                      last |-> last]
          /\ UNCHANGED <<treeVars, ygHeight, culled, styleVars, scrollVars, attrVars,
                         hidden, focused, destroyed, rememberFocus, originalDefaultFocus,
                         childFocused>>
          /\ IF entry.field = "collapseState" /\ parent[v] # NoView
             THEN InvalidateColumn
             ELSE UNCHANGED ygLayout

\* the last frame of the interpolation i on scrollY
ScrollTick(i) ==
    /\ i \in DOMAIN animations
    /\ animations[i].field = "scrollY"
    /\ animations[i].view \notin destroyed
    /\ ScrollAnimationTick(animations[i].view)
    /\ animations' = RemoveAt(animations, i)
    /\ UNCHANGED <<attrVars, alpha, highlightAlpha, hidden, fadeIn, focused, destroyed,
                   rememberFocus, originalDefaultFocus, childFocused>>

\* View::~View: the tags it kills, the parent user data it frees, and
\* Application::giveFocus(nullptr) when the view holds the focus, which calls the
\* view's onFocusLost
View_destructorTags(v) ==
    {AddressTag(v, "alpha"), AddressTag(v, "highlightAlpha"),
     AddressTag(v, "collapseState")}

View_destructor(v) ==
    /\ v \notin destroyed
    /\ LET killed == SelectSeq(animations,
                               LAMBDA entry : entry.tag \notin View_destructorTags(v))
           hasFocus == Application_currentFocus = v
       IN /\ animations' = IF hasFocus THEN View_onFocusLost_animations(killed, v)
                           ELSE killed
          /\ focused' = IF hasFocus THEN [focused EXCEPT ![v] = FALSE] ELSE focused
          /\ Application_currentFocus' = IF hasFocus THEN NoView
                                         ELSE Application_currentFocus
          /\ call' = [op |-> "View::~View", self |-> v,
                      lost |-> IF hasFocus THEN View_onFocus(v, {}) ELSE <<>>]
    /\ Pushed
    /\ parentUserdata' = [parentUserdata EXCEPT ![v] = Null]
    /\ destroyed' = destroyed \cup {v}
    /\ UNCHANGED <<children, parent, axis, orientation, focusable, blDefaultFocusedIndex,
                   ygChildren, geomVars, styleVars, scrollY, middleY, bottomY,
                   updateScrollingOnNextFrame, scrollAnim, attrVars, alpha,
                   highlightAlpha, hidden, fadeIn, rememberFocus, originalDefaultFocus,
                   childFocused>>

\* The trees of SpecAnim: no view attached, or leaf 11 in the scrolling box, the
\* scrolling box and leaf 12 in box 1, box 1 in box 2.
AnimShapes == {"detached", "tree"}
AnimChildren(shape) ==
    [c \in Containers |->
        IF c \in ScrollingBoxes THEN <<flatBox(c)>>
        ELSE IF shape = "detached" THEN <<>>
        ELSE IF c \in FlatBoxes THEN <<11>>
        ELSE IF c = 1 THEN <<41, 12>>
        ELSE IF c = 2 THEN <<1>>
        ELSE <<>>]
AnimParent(shape) ==
    [v \in Views |->
        IF \E c \in Containers \ BoxLayouts : v \in Range(AnimChildren(shape)[c])
        THEN CHOOSE c \in Containers \ BoxLayouts : v \in Range(AnimChildren(shape)[c])
        ELSE NoView]
AnimUserdata(shape) ==
    [v \in Views |->
        IF AnimParent(shape)[v] = NoView THEN Null
        ELSE CHOOSE i \in 0..1 : At(AnimChildren(shape)[AnimParent(shape)[v]] \o <<0>>, i) = v]

\* the views SpecAnim collapses, shows and hides, and the scroll values it asks for
AnimatedViews == {11}
ScrollValues == {Zero, Half}

InitAnim ==
    /\ \E shape \in AnimShapes :
          /\ children = AnimChildren(shape)
          /\ parent = AnimParent(shape)
          /\ parentUserdata = AnimUserdata(shape)
    /\ blDefaultFocusedIndex = [bl \in BoxLayouts |-> 0]
    /\ ygChildren = [b \in BoxLikes |-> children[b]]
    /\ StyleConstructed
    /\ ScrollConstructed
    /\ NoAttributes
    /\ LifeConstructed
    /\ axis = [b \in BoxLikes |-> "COLUMN"]
    /\ orientation = [bl \in BoxLayouts |-> "VERTICAL"]
    /\ focusable = [v \in Leaves |-> TRUE]
    /\ ygHeight = [v \in Views |-> IF v \in Leaves THEN 2
                                   ELSE IF v \in ScrollingBoxes THEN AreaHeight
                                   ELSE IF v \in FlatBoxes THEN 0 ELSE AUTO]
    /\ ygLayout = YGColumnLayout([v \in Views |-> ZeroRect], children, parent,
                                 parentUserdata, ygHeight, ygMarginTop, ygMarginBottom,
                                 ygPositionTop)
    /\ culled = [v \in Views |-> v \notin FlatBoxes]
    /\ collapseState = [v \in Views |-> CollapseScale]
    /\ call = NoCall

NextAnim ==
    \/ \E v \in AnimatedViews, animated \in BOOLEAN : View_collapse(v, animated)
    \/ \E v \in AnimatedViews, animated \in BOOLEAN : View_expand(v, animated)
    \/ \E v \in AnimatedViews, animated \in BOOLEAN : View_show(v, animated)
    \/ \E v \in AnimatedViews, animated \in BOOLEAN : View_hide(v, animated)
    \/ \E s \in ScrollingBoxes, animated \in BOOLEAN, newScroll \in ScrollValues :
          StartScrolling(s, animated, newScroll)
    \/ \E view \in Leaves \cup {NoView} : Application_giveFocus(view)
    \/ \E i \in 1..MaxAnimations, last \in BOOLEAN : AnimationTick(i, last)
    \/ \E i \in 1..MaxAnimations : ScrollTick(i)
    \/ \E v \in AnimatedViews \cup ScrollingBoxes :
          parent[v] = NoView /\ View_destructor(v)

SpecAnim == InitAnim /\ [][NextAnim]_vars

\* C13: every operation that starts an interpolation on a field of a view first
\* cancels the interpolation in flight on that field, so at most one interpolation
\* per field is in flight in every reachable state, and the tag an interpolation
\* carries is one the destructor of its view cancels.
C13_OneInterpolationPerField ==
    /\ \A i, j \in DOMAIN animations :
          (animations[i].view = animations[j].view
              /\ animations[i].field = animations[j].field) => i = j
    /\ \A i \in DOMAIN animations :
          animations[i].tag \in View_destructorTags(animations[i].view)

\* the containers above a view
StrictAncestors(v) == {a \in Containers : a # v /\ InSubtree(a, v)}

\* the calls of a list reach every ancestor of v once, bottom-up, each with its own
\* child on the path as the direct child and v as the focused view
WellPropagated(list, v) ==
    /\ Len(list) = Cardinality(StrictAncestors(v))
    /\ {list[k].to : k \in 1..Len(list)} = StrictAncestors(v)
    /\ \A k \in 1..Len(list) :
          /\ list[k].focusedView = v
          /\ list[k].to = parent[list[k].directChild]
          /\ list[k].directChild = IF k = 1 THEN v ELSE list[k - 1].to

\* C14: when a view gains focus every ancestor from its parent up to the root
\* receives onChildFocusGained exactly once, bottom-up, with its own direct child on
\* the path and the focused view; the same holds for onFocusLost and
\* onChildFocusLost, and a ScrollingBox on the path passes the call on.
C14_FocusReachesEveryAncestor ==
    call.op = "Application::giveFocus" =>
        /\ call.self # NoView => WellPropagated(call.gained, call.self)
        /\ call.old # NoView => WellPropagated(call.lost, call.old)

\* leaf 11, below the scrolling box, took the focus from leaf 12: four ancestors
\* heard of the gain, the scrolling box second, and two of the loss
C14_Witness ==
    /\ call.op = "Application::giveFocus"
    /\ call.self = 11 /\ call.old = 12
    /\ Len(call.gained) = 4
    /\ call.gained[2].to \in ScrollingBoxes
    /\ call.gained[4] = [to |-> 2, directChild |-> 1, focusedView |-> 11]
    /\ Len(call.lost) = 2

\* --------------------------------------- the legacy container: SpecBoxLayout
\*
\* BoxLayout's children, its remembered focus, removeView, clear and its destructor.
\* The views of SpecBoxLayout are leaves; no interpolation is in flight and no view
\* holds the focus there, so the kills and the focus check of View::~View change
\* nothing.

\* BoxLayout::setRememberFocus
BoxLayout_setRememberFocus(bl, remember) ==
    /\ bl \notin destroyed
    /\ rememberFocus' = [rememberFocus EXCEPT ![bl] = remember]
    /\ call' = [op |-> "BoxLayout::setRememberFocus", self |-> bl]
    /\ UNCHANGED <<treeVars, geomVars, styleVars, scrollVars, attrVars, animations, alpha,
                   highlightAlpha, hidden, fadeIn, focused, destroyed,
                   originalDefaultFocus, childFocused>>

\* BoxLayout::onChildFocusGained: the default-focus index after the call
BoxLayout_remembered_always(bl, child) == IndexOfNode(bl, parentUserdata[child])

BoxLayout_remembered(bl, child) ==
    IF rememberFocus[bl] THEN IndexOfNode(bl, parentUserdata[child])
    ELSE blDefaultFocusedIndex[bl]

\* BoxLayout::onChildFocusGained(child), then the handler of the previous View
\* interface, which passes the call to the parent
BoxLayout_onChildFocusGained(bl, child) ==
    /\ bl \notin destroyed
    /\ \E k \in 1..Len(children[bl]) :
          children[bl][k].view = child /\ children[bl][k].node = parentUserdata[child]
    /\ childFocused' = [childFocused EXCEPT ![bl] = TRUE]
    /\ blDefaultFocusedIndex' =
          [blDefaultFocusedIndex EXCEPT ![bl] = BoxLayout_remembered(bl, child)]
    /\ call' = [op |-> "BoxLayout::onChildFocusGained", self |-> bl, child |-> child,
                index |-> IndexOfNode(bl, parentUserdata[child])]
    /\ UNCHANGED <<children, parent, parentUserdata, axis, orientation, focusable,
                   ygChildren, geomVars, styleVars, scrollVars, attrVars, animations,
                   alpha, highlightAlpha, hidden, fadeIn, focused, destroyed,
                   rememberFocus, originalDefaultFocus>>

\* BoxLayout::onChildFocusLost(child)
BoxLayout_onChildFocusLost(bl, child) ==
    /\ bl \notin destroyed
    /\ \E k \in 1..Len(children[bl]) : children[bl][k].view = child
    /\ childFocused' = [childFocused EXCEPT ![bl] = FALSE]
    /\ call' = [op |-> "BoxLayout::onChildFocusLost", self |-> bl, child |-> child]
    /\ UNCHANGED <<treeVars, geomVars, styleVars, scrollVars, attrVars, animations, alpha,
                   highlightAlpha, hidden, fadeIn, focused, destroyed, rememberFocus,
                   originalDefaultFocus>>

\* the children a BoxLayout notifies, in the order of the range-for
BoxLayout_notified(bl, what) ==
    [k \in 1..Len(children[bl]) |-> [e |-> what, on |-> children[bl][k].view]]

\* BoxLayout::willAppear
BoxLayout_willAppear(bl, resetState) ==
    /\ bl \notin destroyed
    /\ call' = [op |-> "BoxLayout::willAppear", self |-> bl,
                events |-> BoxLayout_notified(bl, "willAppear")]
    /\ UNCHANGED <<treeVars, geomVars, styleVars, scrollVars, attrVars, lifeVars>>

\* BoxLayout::willDisappear
BoxLayout_willDisappear(bl, resetState) ==
    /\ bl \notin destroyed
    /\ blDefaultFocusedIndex' =
          [blDefaultFocusedIndex EXCEPT ![bl] =
              IF rememberFocus[bl] THEN originalDefaultFocus[bl] ELSE @]
    /\ call' = [op |-> "BoxLayout::willDisappear", self |-> bl,
                before |-> blDefaultFocusedIndex[bl],
                events |-> BoxLayout_notified(bl, "willDisappear")]
    /\ UNCHANGED <<children, parent, parentUserdata, axis, orientation, focusable,
                   ygChildren, geomVars, styleVars, scrollVars, attrVars, lifeVars>>

\* What delete (*childIterator) gives after children.erase(childIterator): the
\* read of the erased position is undefined, the build finds the record the freed
\* node still names, or it aborts.
ErasedReadOutcomes == {"stale", "crash"}

\* BoxLayout::removeView(childIterator, free) at the index i of the list
BoxLayout_removeViewAt(list, i, free, ub) ==
    LET child == At(list, i)
    IN [children |-> RemoveAt(list, i + 1),
        events |-> <<[e |-> "willDisappear", on |-> child.view]>>
                   \o (IF free THEN <<[e |-> "delete view", on |-> child.view]>> ELSE <<>>)
                   \o <<[e |-> "erase", on |-> child.node],
                        [e |-> "read erased", on |-> child.node]>>
                   \o (IF ub = "stale"
                       THEN <<[e |-> "delete record", on |-> child.node]>> ELSE <<>>),
        crashed |-> ub = "crash",
        deleted |-> IF free THEN {child.view} ELSE {},
        result |-> IF free THEN NoView ELSE child.view]

\* BoxLayout::removeView(index, free).  A deleted view frees its parent user data
\* (View::~View); a view that is not deleted keeps its parent and its token.
BoxLayout_removeView(bl, index, free, ub) ==
    /\ bl \notin destroyed
    /\ index < Len(children[bl])
    /\ LET r == BoxLayout_removeViewAt(children[bl], index, free, ub)
       IN /\ children' = [children EXCEPT ![bl] = r.children]
          /\ destroyed' = destroyed \cup r.deleted
          /\ parentUserdata' = [v \in Views |-> IF v \in r.deleted THEN Null
                                               ELSE parentUserdata[v]]
          /\ call' = [op |-> "BoxLayout::removeView", self |-> bl, index |-> index,
                      free |-> free, view |-> At(children[bl], index).view,
                      node |-> At(children[bl], index).node, before |-> children[bl],
                      events |-> r.events, crashed |-> r.crashed, result |-> r.result]
    /\ UNCHANGED <<parent, axis, orientation, focusable, blDefaultFocusedIndex, ygChildren,
                   geomVars, styleVars, scrollVars, attrVars, animations, alpha,
                   highlightAlpha, hidden, fadeIn, focused, rememberFocus,
                   originalDefaultFocus, childFocused>>

\* BoxLayout::clear: removeView(0, free) while the list is not empty
RECURSIVE BoxLayout_clearFrom(_, _, _, _, _)
BoxLayout_clearFrom(list, free, ub, events, deleted) ==
    IF list = <<>>
    THEN [children |-> list, events |-> events, deleted |-> deleted, crashed |-> FALSE]
    ELSE LET r == BoxLayout_removeViewAt(list, 0, free, ub)
         IN IF r.crashed
            THEN [children |-> r.children, events |-> events \o r.events,
                  deleted |-> deleted \cup r.deleted, crashed |-> TRUE]
            ELSE BoxLayout_clearFrom(r.children, free, ub, events \o r.events,
                                     deleted \cup r.deleted)

BoxLayout_clear(bl, free, ub) ==
    /\ bl \notin destroyed
    /\ LET r == BoxLayout_clearFrom(children[bl], free, ub, <<>>, {})
       IN /\ children' = [children EXCEPT ![bl] = r.children]
          /\ destroyed' = destroyed \cup r.deleted
          /\ parentUserdata' = [v \in Views |-> IF v \in r.deleted THEN Null
                                               ELSE parentUserdata[v]]
          /\ call' = [op |-> "BoxLayout::clear", self |-> bl, free |-> free,
                      before |-> children[bl], events |-> r.events,
                      crashed |-> r.crashed]
    /\ UNCHANGED <<parent, axis, orientation, focusable, blDefaultFocusedIndex, ygChildren,
                   geomVars, styleVars, scrollVars, attrVars, animations, alpha,
                   highlightAlpha, hidden, fadeIn, focused, rememberFocus,
                   originalDefaultFocus, childFocused>>

\* The loop of BoxLayout::~BoxLayout from the reverse iterator at the k-th child
RECURSIVE BoxLayout_destructor_forward(_, _)
BoxLayout_destructor_forward(list, k) ==
    IF k = 0 THEN <<>>
    ELSE BoxLayout_destructor_forward(list, k - 1)
         \o <<[e |-> "willDisappear", on |-> list[k].view],
              [e |-> "delete view", on |-> list[k].view],
              [e |-> "delete record", on |-> list[k].node]>>

RECURSIVE BoxLayout_destructorFrom(_, _)
BoxLayout_destructorFrom(list, k) ==
    IF k = 0 THEN <<>>
    ELSE <<[e |-> "willDisappear", on |-> list[k].view],
           [e |-> "delete view", on |-> list[k].view],
           [e |-> "delete record", on |-> list[k].node]>>
         \o BoxLayout_destructorFrom(list, k - 1)

\* BoxLayout::~BoxLayout, then View::~View of the layout
BoxLayout_destructor(bl) ==
    /\ bl \notin destroyed
    /\ LET deleted == {children[bl][k].view : k \in 1..Len(children[bl])} \cup {bl}
       IN /\ destroyed' = destroyed \cup deleted
          /\ parentUserdata' = [v \in Views |-> IF v \in deleted THEN Null
                                               ELSE parentUserdata[v]]
    /\ children' = [children EXCEPT ![bl] = <<>>]
    /\ call' = [op |-> "BoxLayout::~BoxLayout", self |-> bl, before |-> children[bl],
                events |-> BoxLayout_destructorFrom(children[bl], Len(children[bl]))
                           \o <<[e |-> "clear", on |-> bl]>>]
    /\ UNCHANGED <<parent, axis, orientation, focusable, blDefaultFocusedIndex, ygChildren,
                   geomVars, styleVars, scrollVars, attrVars, animations, alpha,
                   highlightAlpha, hidden, fadeIn, focused, rememberFocus,
                   originalDefaultFocus, childFocused>>

\* the position tokens SpecBoxLayout hands out are bounded
MaxNodes == 4

\* BoxLayout::addView of a view that no container holds
BoxLayoutAddDetached(bl, view, fill) ==
    /\ NewNode <= MaxNodes
    /\ bl \notin destroyed
    /\ view \notin destroyed
    /\ \A c \in Containers : view \notin Range(ChildViews(c))
    /\ BoxLayout_addView(bl, view, fill)
    /\ UNCHANGED <<geomVars, styleVars, scrollVars, attrVars, lifeVars>>

\* the default-focus index the constructor is given
DefaultFocusValues == {0, 1}

InitBoxLayout ==
    /\ children = [c \in Containers |->
                      IF c \in ScrollingBoxes THEN <<flatBox(c)>> ELSE <<>>]
    /\ parent = [v \in Views |->
                    IF v \in FlatBoxes
                    THEN CHOOSE s \in ScrollingBoxes : flatBox(s) = v
                    ELSE NoView]
    /\ parentUserdata = [v \in Views |-> IF v \in FlatBoxes THEN 0 ELSE Null]
    /\ ygChildren = [b \in BoxLikes |-> children[b]]
    /\ \E defaultFocus \in DefaultFocusValues :
          /\ blDefaultFocusedIndex = [bl \in BoxLayouts |-> defaultFocus]
          /\ originalDefaultFocus = [bl \in BoxLayouts |-> defaultFocus]
    /\ GeomConstructed
    /\ StyleConstructed
    /\ ScrollConstructed
    /\ NoAttributes
    /\ animations = <<>>
    /\ alpha = [v \in Views |-> One]
    /\ highlightAlpha = [v \in Views |-> Zero]
    /\ hidden = [v \in Views |-> FALSE]
    /\ fadeIn = [v \in Views |-> FALSE]
    /\ focused = [v \in Views |-> FALSE]
    /\ destroyed = {}
    /\ rememberFocus = [bl \in BoxLayouts |-> FALSE]
    /\ childFocused = [bl \in BoxLayouts |-> FALSE]
    /\ axis = [b \in BoxLikes |-> "COLUMN"]
    /\ orientation = [bl \in BoxLayouts |-> "VERTICAL"]
    /\ focusable = [v \in Leaves |-> TRUE]
    /\ call = NoCall

NextBoxLayout ==
    \/ \E bl \in BoxLayouts, v \in Leaves, fill \in FillValues :
          BoxLayoutAddDetached(bl, v, fill)
    \/ \E bl \in BoxLayouts, remember \in BOOLEAN : BoxLayout_setRememberFocus(bl, remember)
    \/ \E bl \in BoxLayouts, child \in Leaves : BoxLayout_onChildFocusGained(bl, child)
    \/ \E bl \in BoxLayouts, child \in Leaves : BoxLayout_onChildFocusLost(bl, child)
    \/ \E bl \in BoxLayouts, resetState \in BOOLEAN : BoxLayout_willAppear(bl, resetState)
    \/ \E bl \in BoxLayouts, resetState \in BOOLEAN : BoxLayout_willDisappear(bl, resetState)
    \/ \E bl \in BoxLayouts : bl \notin destroyed /\ BoxLayoutGetDefaultFocus(bl)
                              /\ GeomUnchanged
    \/ \E bl \in BoxLayouts, index \in 0..(NLeaves - 1), free \in BOOLEAN,
          ub \in ErasedReadOutcomes : BoxLayout_removeView(bl, index, free, ub)
    \/ \E bl \in BoxLayouts, free \in BOOLEAN, ub \in ErasedReadOutcomes :
          BoxLayout_clear(bl, free, ub)
    \/ \E bl \in BoxLayouts : BoxLayout_destructor(bl)

SpecBoxLayout == InitBoxLayout /\ [][NextBoxLayout]_vars

\* C15: in a BoxLayout that remembers the focus, once child k has gained focus the
\* remembered child persists across disappearance: after a following willDisappear
\* getDefaultFocus still tries child k first.
C15_RememberedChildSurvivesDisappearance ==
    [][(/\ call.op = "BoxLayout::onChildFocusGained"
        /\ rememberFocus[call.self]
        /\ call'.op = "BoxLayout::willDisappear"
        /\ call'.self = call.self)
       => blDefaultFocusedIndex'[call.self] = call.index]_vars

FocusAndAppearance ==
    {"BoxLayout::onChildFocusGained", "BoxLayout::onChildFocusLost",
     "BoxLayout::willAppear", "BoxLayout::willDisappear"}

\* C16: willDisappear of a BoxLayout that remembers the focus restores the
\* default-focus index the constructor was given; in a BoxLayout that does not
\* remember, no child focus gain, focus loss, willAppear or willDisappear changes
\* the index.
C16_DisappearanceRestoresDefault ==
    /\ [][(call'.op = "BoxLayout::willDisappear" /\ rememberFocus[call'.self])
          => blDefaultFocusedIndex'[call'.self] = originalDefaultFocus[call'.self]]_vars
    /\ [][\A bl \in BoxLayouts :
             (~rememberFocus[bl] /\ call'.op \in FocusAndAppearance)
                => blDefaultFocusedIndex'[bl] = blDefaultFocusedIndex[bl]]_vars
    /\ [][originalDefaultFocus' = originalDefaultFocus]_vars

\* a remembering layout of two children disappeared and its index went back to
\* the constructed one
C16_Witness ==
    /\ call.op = "BoxLayout::willDisappear"
    /\ rememberFocus[call.self]
    /\ Len(children[call.self]) = 2
    /\ call.before # originalDefaultFocus[call.self]
    /\ blDefaultFocusedIndex[call.self] = originalDefaultFocus[call.self]

\* the positions of an event in the events of the last call
EventAt(e, on) == {k \in 1..Len(call.events) : call.events[k] = [e |-> e, on |-> on]}

\* the removal of one child record: the view hears of the disappearance before the
\* erase, and the record is freed exactly once
RemovedInOrder(child) ==
    /\ \E i \in EventAt("willDisappear", child.view), j \in EventAt("erase", child.node) :
          i < j
    /\ Cardinality(EventAt("delete record", child.node)) = 1

\* C17: BoxLayout::removeView delivers willDisappear to the view before it detaches
\* it, frees the child record exactly once whether or not the view is freed, and
\* without reading an erased position, returns the view when it is not freed and
\* none when it is, and leaves the other children in their order; BoxLayout::clear
\* ends with an empty child sequence after removing every child this way.
C17_RemoveDetachesAfterNotifying ==
    /\ call.op = "BoxLayout::removeView" =>
          /\ RemovedInOrder(At(call.before, call.index))
          /\ EventAt("read erased", call.node) = {}
          /\ call.result = IF call.free THEN NoView ELSE call.view
          /\ children[call.self] = RemoveAt(call.before, call.index + 1)
    /\ call.op = "BoxLayout::clear" =>
          /\ children[call.self] = <<>>
          /\ \A k \in 1..Len(call.before) :
                /\ RemovedInOrder(call.before[k])
                /\ EventAt("read erased", call.before[k].node) = {}

\* a live view of a BoxLayout holds the token of a record the layout still has
TokenDesignatesRecord(v) ==
    (parent[v] \in BoxLayouts /\ parentUserdata[v] # Null) =>
        \E k \in 1..Len(children[parent[v]]) :
            children[parent[v]][k].node = parentUserdata[v]

\* C18: a view detached from its container without being destroyed
\* (BoxLayout::removeView with free = false) has its parent user data freed and a
\* parent that no longer designates the container; no live view holds a position
\* token of an erased child record, and setParent never overwrites a token that is
\* still allocated.
C18_DetachReleasesUserdata ==
    /\ []((call.op = "BoxLayout::removeView" /\ ~call.free) =>
             /\ parentUserdata[call.view] = Null
             /\ parent[call.view] # call.self)
    /\ [](\A v \in Views \ destroyed : TokenDesignatesRecord(v))
    /\ [][\A v \in Views :
             (parentUserdata[v] # Null /\ parentUserdata'[v] # parentUserdata[v])
                => parentUserdata'[v] = Null]_vars

FreshLayout(v) ==
    YGChainLayout(ygLayout, <<RootIn(parent, v)>>, ygWidth, ygHeight, ygMarginTop,
                  ygMarginLeft, ygPadding)

\* C20: View::invalidate called on a view of a finite tree returns after exactly
\* one layout computation, on the root of the tree (the ancestor without parent)
\* and on no other node, so the geometry after the call is the one of the current
\* styles.
C20_InvalidateLaysOutTheRootOnce ==
    call.op = "View::invalidate" =>
        /\ Len(call.layouts) = 1
        /\ call.layouts[1] = RootIn(parent, call.self)
        /\ parent[call.layouts[1]] = NoView
        /\ ygLayout = FreshLayout(call.self)

\* invalidate called on a leaf two boxes deep, whose margin and whose box's padding
\* the layout shows: the one layout ran on the outer box
C20_Witness ==
    /\ call.op = "View::invalidate"
    /\ call.self = StyledLeaf
    /\ parent[StyledLeaf] = InnerBox /\ parent[InnerBox] = OuterBox
    /\ call.layouts = <<OuterBox>>
    /\ ygLayout[StyledLeaf].left = 2

\* ------------------------------------------------------ View::frame: SpecFrame

Visibilities == {"VISIBLE", "INVISIBLE", "GONE"}
Themes == {"light", "dark"}
\* themeOverride == nullptr
NoTheme == "none"

\* View::frame without the nvgRestore that ends the collapse clipping
View_frame_unbalanced(v, visibility, themeOverride, highlightBackgroundEnabled, theme) ==
    IF visibility # "VISIBLE"
    THEN [steps |-> <<>>, theme |-> theme]
    ELSE [steps |->
             <<"nvgSave">>
             \o (IF themeOverride # NoTheme THEN <<"theme override">> ELSE <<>>)
             \o (IF FracGreater(alpha[v], 0) /\ collapseState[v] # 0
                 THEN <<"drawBackground">>
                      \o (IF FracGreater(highlightAlpha[v], 0) /\ highlightBackgroundEnabled
                          THEN <<"drawHighlight background">> ELSE <<>>)
                      \o (IF collapseState[v] < CollapseScale
                          THEN <<"nvgSave", "nvgIntersectScissor">> ELSE <<>>)
                      \o <<"draw">>
                      \o (IF FracGreater(highlightAlpha[v], 0)
                          THEN <<"drawHighlight">> ELSE <<>>)
                      \o <<"drawBorder">>
                 ELSE <<>>)
             \o <<"nvgRestore">>,
          theme |-> LET oldTheme == theme
                        overridden == IF themeOverride # NoTheme THEN themeOverride
                                      ELSE theme
                    IN IF themeOverride # NoTheme THEN oldTheme ELSE overridden]

\* View::frame: the calls it makes, in order, and ctx->theme when it returns.
\* drawHighlight saves and restores the graphics state itself.
View_frame(v, visibility, themeOverride, highlightBackgroundEnabled, theme) ==
    IF visibility # "VISIBLE"
    THEN [steps |-> <<>>, theme |-> theme]
    ELSE [steps |->
             <<"nvgSave">>
             \o (IF themeOverride # NoTheme THEN <<"theme override">> ELSE <<>>)
             \o (IF FracGreater(alpha[v], 0) /\ collapseState[v] # 0
                 THEN <<"drawBackground">>
                      \o (IF FracGreater(highlightAlpha[v], 0) /\ highlightBackgroundEnabled
                          THEN <<"drawHighlight background">> ELSE <<>>)
                      \o (IF collapseState[v] < CollapseScale
                          THEN <<"nvgSave", "nvgIntersectScissor">> ELSE <<>>)
                      \o <<"draw">>
                      \o (IF FracGreater(highlightAlpha[v], 0)
                          THEN <<"drawHighlight">> ELSE <<>>)
                      \o <<"drawBorder">>
                      \o (IF collapseState[v] < CollapseScale
                          THEN <<"nvgRestore">> ELSE <<>>)
                 ELSE <<>>)
             \o <<"nvgRestore">>,
          theme |-> LET oldTheme == theme
                        overridden == IF themeOverride # NoTheme THEN themeOverride
                                      ELSE theme
                    IN IF themeOverride # NoTheme THEN oldTheme ELSE overridden]

\* View::frame called with a frame context whose theme is `theme'
Frame(v, visibility, themeOverride, highlightBackgroundEnabled, theme) ==
    /\ LET r == View_frame(v, visibility, themeOverride, highlightBackgroundEnabled, theme)
       IN call' = [op |-> "View::frame", self |-> v, visibility |-> visibility,
                   themeOverride |-> themeOverride,
                   highlightBackgroundEnabled |-> highlightBackgroundEnabled,
                   themeBefore |-> theme, steps |-> r.steps, theme |-> r.theme]
    /\ UNCHANGED <<treeVars, geomVars, styleVars, scrollVars, attrVars, lifeVars>>

\* the view SpecFrame frames and the values of its animated fields
FramedView == 11
AlphaValues == {Zero, Half, One}

InitFrame ==
    /\ TreeConstructed
    /\ StyleConstructed
    /\ ScrollConstructed
    /\ NoAttributes
    /\ ygHeight = [v \in Views |-> IF v \in FlatBoxes THEN 0 ELSE AUTO]
    /\ ygLayout = [v \in Views |-> ZeroRect]
    /\ culled = [v \in Views |-> v \notin FlatBoxes]
    /\ \E c \in 0..CollapseScale :
          collapseState = [v \in Views |-> IF v = FramedView THEN c ELSE CollapseScale]
    /\ \E a \in AlphaValues : alpha = [v \in Views |-> IF v = FramedView THEN a ELSE One]
    /\ \E h \in AlphaValues :
          highlightAlpha = [v \in Views |-> IF v = FramedView THEN h ELSE Zero]
    /\ animations = <<>>
    /\ hidden = [v \in Views |-> FALSE]
    /\ fadeIn = [v \in Views |-> FALSE]
    /\ focused = [v \in Views |-> FALSE]
    /\ destroyed = {}
    /\ rememberFocus = [bl \in BoxLayouts |-> FALSE]
    /\ originalDefaultFocus = [bl \in BoxLayouts |-> 0]
    /\ childFocused = [bl \in BoxLayouts |-> FALSE]
    /\ axis = [b \in BoxLikes |-> "COLUMN"]
    /\ orientation = [bl \in BoxLayouts |-> "VERTICAL"]
    /\ focusable = [v \in Leaves |-> TRUE]
    /\ call = NoCall

NextFrame ==
    \E visibility \in Visibilities, themeOverride \in Themes \cup {NoTheme},
       highlightBackgroundEnabled \in BOOLEAN, theme \in Themes :
          Frame(FramedView, visibility, themeOverride, highlightBackgroundEnabled, theme)

SpecFrame == InitFrame /\ [][NextFrame]_vars

\* the depth of the graphics state stack after the first k steps
RECURSIVE StackDepth(_, _)
StackDepth(steps, k) ==
    IF k = 0 THEN 0
    ELSE StackDepth(steps, k - 1)
         + (IF steps[k] = "nvgSave" THEN 1 ELSE IF steps[k] = "nvgRestore" THEN 0 - 1 ELSE 0)

\* the drawing steps of View::frame in their fixed order
FrameOrder ==
    <<"theme override", "drawBackground", "drawHighlight background",
      "nvgIntersectScissor", "draw", "drawHighlight", "drawBorder">>

\* the drawing steps among the steps of the last call
Drawn == SelectSeq(call.steps, LAMBDA step : step \in Range(FrameOrder))

\* the steps of `order' that `wanted' selects
Selected(order, wanted) == SelectSeq(order, LAMBDA step : step \in wanted)

\* the stack is balanced and never popped below its depth at the call, and the
\* theme of the frame context is the one before the call
Balanced ==
    /\ StackDepth(call.steps, Len(call.steps)) = 0
    /\ \A k \in 0..Len(call.steps) : StackDepth(call.steps, k) >= 0
    /\ call.theme = call.themeBefore

\* the view draws: it is neither transparent nor fully collapsed
Draws(v) == FracGreater(alpha[v], 0) /\ collapseState[v] # 0

\* C21 as stated: a view that is not VISIBLE issues no call; a VISIBLE view issues
\* theme override, background, highlight background if the highlight alpha is
\* positive, the collapse scissor if partially collapsed, the draw hook, the
\* highlight foreground and the borders, in this order, and the stack is balanced
\* and the theme restored.
C21_FrameStepsAsStated ==
    call.op = "View::frame" =>
        /\ call.visibility # "VISIBLE" => call.steps = <<>>
        /\ call.visibility = "VISIBLE" =>
              Drawn = Selected(FrameOrder,
                         {"drawBackground", "draw", "drawBorder"}
                         \cup (IF call.themeOverride # NoTheme
                               THEN {"theme override"} ELSE {})
                         \cup (IF FracGreater(highlightAlpha[call.self], 0)
                               THEN {"drawHighlight background", "drawHighlight"} ELSE {})
                         \cup (IF 0 < collapseState[call.self]
                                  /\ collapseState[call.self] < CollapseScale
                               THEN {"nvgIntersectScissor"} ELSE {}))
        /\ Balanced

\* C21, amended: the drawing steps between the theme override and the restore are
\* issued only by a view that is neither transparent (alpha > 0) nor fully
\* collapsed, and the highlight background only when the view enables it
\* (isHighlightBackgroundEnabled).
C21_FrameSteps ==
    call.op = "View::frame" =>
        /\ call.visibility # "VISIBLE" => call.steps = <<>>
        /\ call.visibility = "VISIBLE" =>
              Drawn = Selected(FrameOrder,
                         (IF call.themeOverride # NoTheme THEN {"theme override"} ELSE {})
                         \cup (IF Draws(call.self)
                               THEN {"drawBackground", "draw", "drawBorder"} ELSE {})
                         \cup (IF Draws(call.self)
                                  /\ FracGreater(highlightAlpha[call.self], 0)
                               THEN {"drawHighlight"} ELSE {})
                         \cup (IF Draws(call.self)
                                  /\ FracGreater(highlightAlpha[call.self], 0)
                                  /\ call.highlightBackgroundEnabled
                               THEN {"drawHighlight background"} ELSE {})
                         \cup (IF Draws(call.self)
                                  /\ collapseState[call.self] < CollapseScale
                               THEN {"nvgIntersectScissor"} ELSE {}))
        /\ Balanced

\* a half collapsed, highlighted view with a theme override was framed: all seven
\* steps, inside two saves
C21_Witness ==
    /\ call.op = "View::frame"
    /\ call.visibility = "VISIBLE"
    /\ Drawn = FrameOrder
    /\ StackDepth(call.steps, 5) = 2
    /\ call.themeOverride # call.themeBefore


(***************************************************************************)
(* The scroll target of a focus change, in SpecScrolling.                  *)
(***************************************************************************)

\* the vertical centre the view f has on screen once the flat box of s, now at
\* ygPositionTop, is positioned at -(fraction x contentHeight)
CentreOncePositioned(s, f, fraction, contentHeight) ==
    LET position == FracNeg(FracTimes(fraction, contentHeight))
        moved == FracPlus(position, 0 - ygPositionTop[flatBox(s)])
    \* twice the centre, in units of 1/moved.den
    IN 2 * moved.num + (2 * View_getY(f) + View_getHeight(f)) * moved.den

\* C22: when a view of a scrolling box gains focus and neither boundary clamps
\* the target, the scroll fraction is the one that, once the flat box is
\* positioned at -(fraction x contentHeight), puts the vertical centre of the
\* focused view on the vertical centre of the scrolling area (middleY).  Stated
\* for a content of positive height.
C22_FocusedViewIsCentred ==
    (/\ Updated
     /\ call.op = "ScrollingBox::onChildFocusGained"
     /\ call.update.contentHeight > 0
     /\ call.update.clamp = "none")
    => LET s == call.self
           u == call.update
           position == FracNeg(FracTimes(u.newScroll, u.contentHeight))
           moved == FracPlus(position, 0 - ygPositionTop[flatBox(s)])
       IN /\ moved.den > 0
          /\ CentreOncePositioned(s, Application_currentFocus, u.newScroll,
                                  u.contentHeight)
                = 2 * middleY[s] * moved.den


\* the draw of a scrolling box that came back
DrawReturned == call.op = "ScrollingBox::draw" /\ ~(call.update.ran /\ call.update.crashed)

\* a draw clears the pending update exactly when the flat box has a child
FlagFollowsDraw ==
    DrawReturned' =>
        LET s == call'.self
        IN updateScrollingOnNextFrame'[s]
              = (updateScrollingOnNextFrame[s] /\ Len(children[flatBox(s)]) = 0)

\* the scroll is at the top and nothing is left to move it
ScrollIsReset(s) ==
    /\ scrollY[s] = Zero
    /\ scrollAnim[s] = NoAnim
    /\ updateScrollingOnNextFrame[s]

\* C23: after willAppear(true) the scroll fraction is 0 with no earlier scroll
\* interpolation left in flight to move it before the next draw, and the pending
\* update is set; the first later draw with a child in the flat box clears the
\* pending update, a draw with an empty flat box leaves it set.
C23_WillAppearResetsScroll ==
    /\ []((call.op = "ScrollingBox::willAppear" /\ call.resetState)
             => ScrollIsReset(call.self))
    /\ [][FlagFollowsDraw]_vars


\* the flat box of s is where the scroll fraction puts it
FlatBoxFollowsScroll(s) ==
    Frac(ygPositionTop[flatBox(s)], 1)
        = FracNeg(FracTimes(scrollY[s], ScrollingBox_getContentHeight(s)))

\* C24: whenever startScrolling has applied a change of the scroll fraction, at
\* once when not animated or by a tick of its interpolation, the position offset
\* of the flat box is -(fraction x content height) and the layout has been
\* computed again.  Stated for fractions that are numbers.
C24_ScrollChangeMovesFlatBox ==
    [][\A s \in ScrollingBoxes :
          (scrollY'[s] # scrollY[s] /\ scrollY'[s].den > 0)
              => /\ FlatBoxFollowsScroll(s)'
                 /\ ygLayout' = YGColumnLayout(ygLayout, children', parent',
                                               parentUserdata', ygHeight', ygMarginTop',
                                               ygMarginBottom', ygPositionTop')]_vars


\* C30: whenever updateScrolling computes a target on a non-empty flat box, from
\* onChildFocusGained or from the deferred update of draw, there is a focused
\* view and it is a descendant of the scrolling box; the focused view is not read
\* when there is none, and the content height it divides by is not zero.
C30_UpdateReadsAFocusedDescendant ==
    (/\ call.op \in {"ScrollingBox::onChildFocusGained", "ScrollingBox::draw"}
     /\ call.update.ran
     /\ Len(children[flatBox(call.self)]) # 0)
    => /\ Application_currentFocus # NoView
       /\ InSubtree(call.self, Application_currentFocus)
       /\ ~call.update.crashed
       /\ call.update.contentHeight # 0


\* C28: in every state reached by ScrollingBox::addView and by changes of the
\* declared heights, every child of the flat box of a scrolling box declares a
\* height.
C28_FlatBoxChildrenHaveExplicitHeight ==
    \A s \in ScrollingBoxes :
        \A c \in Range(children[flatBox(s)]) : ygHeight[c] # AUTO


(***************************************************************************)
(* Box and BoxLayout side by side, in Spec: the focus a Box would give     *)
(* with the views a BoxLayout holds.                                       *)
(***************************************************************************)

\* the axis of a Box that corresponds to an orientation of a BoxLayout
AxisOf(o) == IF o = "HORIZONTAL" THEN "ROW" ELSE "COLUMN"

\* Box::getDefaultFocus of a Box whose children are the views of list
Box_getDefaultFocusOver(list) ==
    LET first == IF defaultFocusedIndex < Len(list)
                 THEN View_getDefaultFocus(At(list, defaultFocusedIndex))
                 ELSE NoView
        accepting == {k \in 1..Len(list) : View_getDefaultFocus(list[k]) # NoView}
    IN IF first # NoView THEN first
       ELSE IF accepting = {} THEN NoView
       ELSE View_getDefaultFocus(list[CHOOSE k \in accepting : \A j \in accepting : k <= j])

\* the while loop of Box::getNextFocus over the views of list
RECURSIVE Box_scanNextOver(_, _, _)
Box_scanNextOver(list, currentFocusIndex, offset) ==
    IF currentFocusIndex >= 0 /\ currentFocusIndex < Len(list)
    THEN LET currentFocus == View_getDefaultFocus(At(list, currentFocusIndex))
         IN IF currentFocus # NoView THEN currentFocus
            ELSE Box_scanNextOver(list, (currentFocusIndex + offset) % SizeModulus, offset)
    ELSE NoView

\* Box::getNextFocus of a Box of axis ax whose children are the views of list,
\* asked from its child at index
Box_getNextFocusOver(list, ax, direction, index) ==
    IF AxisMismatch(ax, direction) THEN NoView
    ELSE Box_scanNextOver(list, (index + Box_offset(ax, direction)) % SizeModulus,
                          Box_offset(ax, direction))

\* C27: a BoxLayout gives the focus a Box gives with the same children, the
\* corresponding axis and the default index 0: getNextFocus for every direction
\* and every current child, the first child going LEFT or UP and the last going
\* RIGHT or DOWN included, and getDefaultFocus.
C27_BoxLayoutFocusIsBoxFocus ==
    /\ call.op = "BoxLayout::getNextFocus" =>
          /\ ~call.crashed
          /\ call.result =
                Box_getNextFocusOver(ChildViews(call.self), AxisOf(orientation[call.self]),
                                     call.direction,
                                     IndexOfNode(call.self, parentUserdata[call.currentView]))
    /\ call.op = "BoxLayout::getDefaultFocus" =>
          call.result = Box_getDefaultFocusOver(ChildViews(call.self))


(***************************************************************************)
(* The hand-computed layout of the legacy container: SpecPlacement.        *)
(* BoxLayout::layout is written against the previous View interface: a     *)
(* view has boundaries (int x, y; unsigned width, height) in absolute      *)
(* coordinates, set by setBoundaries.  For the views of this specification *)
(* ygLayout holds those boundaries, the margins of a BoxLayout are its     *)
(* marginTop .. marginLeft fields.                                         *)
(***************************************************************************)

\* unsigned and int arithmetic: the model keeps 16 of their bits
UnsignedModulus == SizeModulus
Unsigned(n) == n % UnsignedModulus
ToInt(n) == ((n + UnsignedModulus \div 2) % UnsignedModulus) - UnsignedModulus \div 2

\* View::isCollapsed, View::isHidden
View_isCollapsed(v) == collapseState[v] < CollapseScale
View_isHidden(v) == hidden[v]

\* View::getHeight(includeCollapse) of a view with the boundaries of lay, taken
\* as an unsigned
View_getHeightIn(lay, v, includeCollapse) ==
    IF includeCollapse THEN (lay[v].height * collapseState[v]) \div CollapseScale
    ELSE lay[v].height

\* a customSpacing that leaves the spacing as configured
BoxLayout_customSpacing_default(custom, k, spacing) == spacing

\* BoxLayout::customSpacing(current, next, &spacing) for the child at position k:
\* the hook of a subclass, which leaves the spacing (Null) or overrides it
BoxLayout_customSpacing(custom, k, spacing) ==
    IF custom[k] = Null THEN spacing ELSE custom[k]

\* the spacing after a child always as configured or overridden
BoxLayout_spacingAfter_always(v, own) == own

\* if (child->view->isCollapsed()) spacing = 0;
BoxLayout_spacingAfter(v, own) == IF View_isCollapsed(v) THEN 0 ELSE own

\* the for loop of the vertical orientation from the child at position k:
\* the boundaries and entriesHeight it leaves
RECURSIVE BoxLayout_layoutVertical(_, _, _, _, _, _, _)
BoxLayout_layoutVertical(bl, k, lay, yAdvance, entriesHeight, spacing, custom) ==
    IF k > Len(children[bl])
    THEN [lay |-> lay, entriesHeight |-> entriesHeight]
    ELSE LET child == children[bl][k]
             this == lay[bl]
             bounds == [left |-> ToInt(this.left + ygMarginLeft[bl]),
                        top |-> yAdvance,
                        width |-> Unsigned(this.width - ygMarginLeft[bl] - ygMarginRight[bl]),
                        height |-> IF child.fill
                                   THEN Unsigned(this.top + this.height - yAdvance
                                                 - ygMarginBottom[bl])
                                   ELSE View_getHeightIn(lay, child.view, FALSE)]
             set == [lay EXCEPT ![child.view] = bounds]
             childHeight == View_getHeightIn(set, child.view, TRUE)
             gap == BoxLayout_spacingAfter(child.view,
                                           BoxLayout_customSpacing(custom, k, spacing))
         IN BoxLayout_layoutVertical(bl, k + 1, set, ToInt(yAdvance + gap + childHeight),
                IF View_isHidden(child.view) THEN entriesHeight
                ELSE Unsigned(entriesHeight + gap + childHeight),
                spacing, custom)

\* the for loop of the horizontal orientation from the child at position k
RECURSIVE BoxLayout_layoutHorizontal(_, _, _, _, _, _)
BoxLayout_layoutHorizontal(bl, k, lay, xAdvance, spacing, custom) ==
    IF k > Len(children[bl])
    THEN lay
    ELSE LET child == children[bl][k]
             this == lay[bl]
             bounds == [left |-> xAdvance,
                        top |-> ToInt(this.top + ygMarginTop[bl]),
                        width |-> IF child.fill
                                  THEN Unsigned(this.left + this.width - xAdvance
                                                - ygMarginRight[bl])
                                  ELSE lay[child.view].width,
                        height |-> Unsigned(this.height - ygMarginTop[bl]
                                            - ygMarginBottom[bl])]
             set == [lay EXCEPT ![child.view] = bounds]
             childWidth == set[child.view].width
             gap == BoxLayout_spacingAfter(child.view,
                                           BoxLayout_customSpacing(custom, k, spacing))
         IN BoxLayout_layoutHorizontal(bl, k + 1, set, ToInt(xAdvance + gap + childWidth),
                                       spacing, custom)

\* a RIGHT gravity that pushes the views whatever the two right boundaries are
BoxLayout_gravityRight_unguarded(bl, lay) ==
    LET lastView == children[bl][Len(children[bl])].view
        difference == Unsigned(Unsigned(lay[bl].left + lay[bl].width)
                               - Unsigned(lay[lastView].left + lay[lastView].width))
    IN [v \in Views |->
           IF v \in Range(ChildViews(bl))
           THEN [left |-> ToInt(lay[v].left + difference), top |-> lay[v].top,
                 width |-> lay[v].width, height |-> View_getHeightIn(lay, v, TRUE)]
           ELSE lay[v]]

\* case BoxLayoutGravity::RIGHT: the remaining space between the right boundary
\* of the last view and ours, and every view pushed by it
BoxLayout_gravityRight(bl, lay) ==
    LET lastView == children[bl][Len(children[bl])].view
        lastViewRight == Unsigned(lay[lastView].left + lay[lastView].width)
        ourRight == Unsigned(lay[bl].left + lay[bl].width)
    IN IF lastViewRight <= ourRight
       THEN LET difference == ourRight - lastViewRight
            IN [v \in Views |->
                   IF v \in Range(ChildViews(bl))
                   THEN [left |-> ToInt(lay[v].left + difference), top |-> lay[v].top,
                         width |-> lay[v].width,
                         height |-> View_getHeightIn(lay, v, TRUE)]
                   ELSE lay[v]]
       ELSE lay

\* BoxLayout::layout: the boundaries it leaves
BoxLayout_layout(bl, spacing, resize, gravity, custom) ==
    IF orientation[bl] = "VERTICAL"
    THEN LET r == BoxLayout_layoutVertical(bl, 1, ygLayout,
                      ToInt(ygLayout[bl].top + ygMarginTop[bl]), 0, spacing, custom)
         IN IF resize
            THEN [r.lay EXCEPT ![bl].height =
                     Unsigned(r.entriesHeight - spacing + ygMarginTop[bl]
                              + ygMarginBottom[bl])]
            ELSE r.lay
    ELSE LET placed == BoxLayout_layoutHorizontal(bl, 1, ygLayout,
                           ToInt(ygLayout[bl].left + ygMarginLeft[bl]), spacing, custom)
         IN IF Len(children[bl]) # 0 /\ gravity = "RIGHT"
            THEN BoxLayout_gravityRight(bl, placed)
            ELSE placed

\* BoxLayout::layout called on a container with the fields spacing, resize and
\* gravity as given and the customSpacing of its class
Layout(bl, spacing, resize, gravity, custom) ==
    /\ ygLayout' = BoxLayout_layout(bl, spacing, resize, gravity, custom)
    /\ call' = [op |-> "BoxLayout::layout", self |-> bl, spacing |-> spacing,
                resize |-> resize, gravity |-> gravity, custom |-> custom]
    /\ UNCHANGED <<treeVars, ygHeight, culled, collapseState, styleVars, scrollVars,
                   attrVars, lifeVars>>

\* the values of SpecPlacement: where the container is and how large, its
\* margins, the sizes of the views, the spacings
Origins == {0, 1}
ContainerExtents == {4}
PlacementMargins == {0, 1}
ChildExtents == {1, 3}
SpacingValues == {0, 1}
CustomSpacings == {Null, 2}
Gravities == {"LEFT", "RIGHT"}

InitPlacement ==
    /\ TreeConstructed
    /\ ScrollConstructed
    /\ NoAttributes
    /\ axis = [b \in BoxLikes |-> "COLUMN"]
    /\ orientation \in [BoxLayouts -> Orientations]
    /\ focusable = [v \in Leaves |-> TRUE]
    /\ ygHeight = [v \in Views |-> IF v \in FlatBoxes THEN 0 ELSE AUTO]
    /\ culled = [v \in Views |-> v \notin FlatBoxes]
    /\ \E origin \in Origins, extent \in ContainerExtents, e \in [Leaves -> ChildExtents] :
          ygLayout = [v \in Views |->
                         IF v \in BoxLayouts
                         THEN [left |-> origin, top |-> origin,
                               width |-> extent, height |-> extent]
                         ELSE IF v \in Leaves
                         THEN [left |-> 0, top |-> 0, width |-> e[v], height |-> e[v]]
                         ELSE ZeroRect]
    /\ \E c \in [Leaves -> 0..CollapseScale] :
          collapseState = [v \in Views |-> IF v \in Leaves THEN c[v] ELSE CollapseScale]
    /\ \E leading \in PlacementMargins, trailing \in PlacementMargins :
          /\ ygMarginTop = [v \in Views |-> IF v \in BoxLayouts THEN leading ELSE 0]
          /\ ygMarginLeft = [v \in Views |-> IF v \in BoxLayouts THEN leading ELSE 0]
          /\ ygMarginBottom = [v \in Views |-> IF v \in BoxLayouts THEN trailing ELSE 0]
          /\ ygMarginRight = [v \in Views |-> IF v \in BoxLayouts THEN trailing ELSE 0]
    /\ ygPositionTop = [v \in Views |-> 0]
    /\ ygWidth = [v \in Views |-> AUTO]
    /\ ygPadding = [b \in BoxLikes |-> NoPadding]
    /\ animations = <<>>
    /\ alpha = [v \in Views |-> Frac(1, 1)]
    /\ highlightAlpha = [v \in Views |-> Zero]
    \* isHidden is read by the vertical branch only
    /\ \E h \in [Leaves -> BOOLEAN] :
          /\ \A bl \in BoxLayouts : orientation[bl] = "HORIZONTAL" => h = [v \in Leaves |-> FALSE]
          /\ hidden = [v \in Views |-> IF v \in Leaves THEN h[v] ELSE FALSE]
    /\ fadeIn = [v \in Views |-> FALSE]
    /\ focused = [v \in Views |-> FALSE]
    /\ destroyed = {}
    /\ rememberFocus = [bl \in BoxLayouts |-> FALSE]
    /\ originalDefaultFocus = [bl \in BoxLayouts |-> 0]
    /\ childFocused = [bl \in BoxLayouts |-> FALSE]
    /\ call = NoCall

NextPlacement ==
    \/ \E bl \in BoxLayouts, v \in NewViews, fill \in BOOLEAN :
          BoxLayoutAddDetached(bl, v, fill)
    \/ \E bl \in BoxLayouts, spacing \in SpacingValues, resize \in BOOLEAN,
          gravity \in Gravities, custom \in [1..NLeaves -> CustomSpacings] :
          \* invalidate() runs the layout once per change; the vertical branch
          \* reads resize, the horizontal one gravity
          /\ call.op # "BoxLayout::layout"
          /\ orientation[bl] = "VERTICAL" => gravity = "LEFT"
          /\ orientation[bl] = "HORIZONTAL" => ~resize
          /\ Layout(bl, spacing, resize, gravity, custom)

SpecPlacement == InitPlacement /\ [][NextPlacement]_vars


\* the last operation laid out a vertical container
LaidOutVertical == call.op = "BoxLayout::layout" /\ orientation[call.self] = "VERTICAL"

\* the running offset at which the child at position k is to be found: the
\* container's y plus its top margin, grown after each child by the height the
\* child resolved to plus the spacing to the next child, which is the configured
\* or overridden one, and zero when the child it is judged by (the upcoming one,
\* or the one just placed) is collapsed
RECURSIVE RunningOffset(_, _, _)
RunningOffset(bl, k, upcoming) ==
    IF k = 1 THEN ToInt(ygLayout[bl].top + ygMarginTop[bl])
    ELSE LET placed == children[bl][k - 1].view
             judged == IF upcoming THEN children[bl][k].view ELSE placed
             own == IF call.custom[k - 1] = Null THEN call.spacing ELSE call.custom[k - 1]
             gap == IF collapseState[judged] < CollapseScale THEN 0 ELSE own
         IN ToInt(RunningOffset(bl, k - 1, upcoming)
                  + (ygLayout[placed].height * collapseState[placed]) \div CollapseScale
                  + gap)

\* C25 as stated: in the VERTICAL orientation every child is placed at the
\* running offset, the spacing to the next child being zero when the upcoming
\* child is mid-collapse.
C25_OffsetsAsStated ==
    LaidOutVertical =>
        \A k \in 1..Len(children[call.self]) :
            ygLayout[children[call.self][k].view].top = RunningOffset(call.self, k, TRUE)

\* C25: in the VERTICAL orientation every child is placed at the running offset
\* that starts at the container's y plus its top margin and grows after each
\* child by the child's resolved height plus the spacing to the next child
\* (configured, or overridden for the pair), the spacing being zero when the
\* child just placed is collapsed (collapseState < 1).
C25_OffsetsFollowPlacedChild ==
    LaidOutVertical =>
        \A k \in 1..Len(children[call.self]) :
            ygLayout[children[call.self][k].view].top = RunningOffset(call.self, k, FALSE)

\* a layout of two children with the configured spacing after a collapsing first
\* child dropped, and the second child expanded
C25_Witness ==
    /\ LaidOutVertical
    /\ Len(children[call.self]) = 2
    /\ call.spacing = 1
    /\ call.custom[1] = Null
    /\ collapseState[children[call.self][1].view] = 1
    /\ collapseState[children[call.self][2].view] = CollapseScale
    /\ ygLayout[children[call.self][2].view].top
          = ygLayout[children[call.self][1].view].top
            + ygLayout[children[call.self][1].view].height \div CollapseScale


\* the boundaries the horizontal loop of the layout being run leaves, before the
\* gravity is applied
PlacedBeforeGravity(bl, spacing, custom) ==
    BoxLayout_layoutHorizontal(bl, 1, ygLayout, ToInt(ygLayout[bl].left + ygMarginLeft[bl]),
                               spacing, custom)

\* the space left between the trailing edge of the last child and the trailing
\* edge of the container, negative when the children overflow
TrailingGap(bl, placed) ==
    LET last == children[bl][Len(children[bl])].view
    IN (ygLayout[bl].left + ygLayout[bl].width) - (placed[last].left + placed[last].width)

\* C26: a HORIZONTAL layout with RIGHT gravity and at least one child shifts every
\* child right by the gap between the trailing edge of the last child and the
\* trailing edge of the container, which keeps the distances between children; no
\* child ends left of where it was placed or of the container's leading edge; when
\* the children overflow the container no shift is applied.
C26_RightGravityShiftsByTheGap ==
    [][(/\ call'.op = "BoxLayout::layout"
        /\ orientation[call'.self] = "HORIZONTAL"
        /\ call'.gravity = "RIGHT"
        /\ Len(children[call'.self]) >= 1)
       => LET bl == call'.self
              placed == PlacedBeforeGravity(bl, call'.spacing, call'.custom)
              gap == TrailingGap(bl, placed)
          IN \A v \in Range(ChildViews(bl)) :
                /\ gap >= 0 => ygLayout'[v].left = placed[v].left + gap
                /\ gap < 0 => ygLayout'[v].left = placed[v].left
                /\ ygLayout'[v].left >= placed[v].left
                /\ ygLayout'[v].left >= ygLayout[bl].left]_vars


\* the children of bl that are not hidden, in order
Shown(bl) == SelectSeq(ChildViews(bl), LAMBDA v : ~hidden[v])

\* the resolved heights of the views of list, added up
RECURSIVE ResolvedHeights(_)
ResolvedHeights(list) ==
    IF list = <<>> THEN 0
    ELSE (ygLayout[Head(list)].height * collapseState[Head(list)]) \div CollapseScale
         + ResolvedHeights(Tail(list))

\* the layout run kept the configured spacing after every child
PlainSpacing ==
    /\ \A k \in 1..Len(children[call.self]) : call.custom[k] = Null
    /\ \A v \in Range(ChildViews(call.self)) : collapseState[v] = CollapseScale

\* C29: with resize, a VERTICAL layout sets the height of the container to its
\* top margin plus its bottom margin plus what the children that are not hidden
\* take: their resolved heights and the spacings between them; nothing but the
\* margins when no child is shown, whatever the spacing, and never a value
\* wrapped below zero.
C29_ResizedHeightIsMarginsPlusShown ==
    (LaidOutVertical /\ call.resize) =>
        LET bl == call.self
            margins == ygMarginTop[bl] + ygMarginBottom[bl]
        IN /\ ygLayout[bl].height < UnsignedModulus \div 2
           /\ Len(Shown(bl)) = 0 => ygLayout[bl].height = margins
           /\ (Len(Shown(bl)) > 0 /\ PlainSpacing) =>
                 ygLayout[bl].height = margins + ResolvedHeights(Shown(bl))
                                       + (Len(Shown(bl)) - 1) * call.spacing

====
